---------------------------- MODULE Spec2Model ----------------------------
(***************************************************************************)
(* Sequential-batch enforcement of the ai_theme_plays pipeline             *)
(* (src/examples/ai_theme_plays/tools.py, middleware.py).                  *)
(*                                                                         *)
(* Batch stage: the module-level SequentialBatchState cursor, the          *)
(* get_companies_from_postgres tool that it gates, the batch artifacts     *)
(* company_matches/batch_<offset>.json of the run's S3 namespace, and      *)
(* process crash / restart.  A restart is a new process that works on the  *)
(* same run namespace (deepagent_runs/<RUN_NAME>/): the artifact store     *)
(* survives, the in-memory cursor does not.                                *)
(*                                                                         *)
(* Validation stage: the module-level SequentialCompanyState record gate,  *)
(* the tools get_company_tickers_from_matched_file and                     *)
(* get_press_releases_from_mongodb, the write_file calls observed by       *)
(* ValidationFileTrackerMiddleware.after_tool, and the artifacts           *)
(* validations/company_<ticker>.json.  The gate has its own                *)
(* specifications: SpecGate for the operations the tools perform,          *)
(* SpecReconcile with direct recover_from_s3 calls added.                  *)
(*                                                                         *)
(* Consolidation stage: consolidate_batch_files,                           *)
(* consolidate_validation_files and merge_and_rank_companies, which fold   *)
(* the artifacts into matched_companies.json, validated_results.json and   *)
(* final_rankings.json.  Its specification is SpecAggregate.               *)
(***************************************************************************)
EXTENDS Integers, Sequences, FiniteSets, TLC

(***************************************************************************)
(* Program constants and model bounds                                      *)
(***************************************************************************)
\* config.py: COMPANY_BATCH_SIZE
BatchSize == 100

\* tools.py: limit = min(limit, 500)
MaxLimit == 500

\* Largest batch index the driver requests.
MaxBatches == 2

\* The restarts a driven run sees at most.
MaxRestarts == 2

HalfBatch == BatchSize \div 2

\* Offsets the driving agent may pass to get_companies_from_postgres.
\* The multiples of the batch size up to MaxBatches, and a misaligned one.
RequestOffsets == {k * BatchSize : k \in 0..MaxBatches} \cup {HalfBatch}

\* limit arguments the driving agent may pass: below, at and above the
\* batch size, and one above the cap of 500.
Limits == {HalfBatch, BatchSize, MaxLimit + BatchSize}

\* Sizes of the Postgres source (rows matching the query's WHERE clause):
\* empty, exactly one batch, and sources that end inside their second and
\* third batch.
TotalCounts == {0, BatchSize, BatchSize + HalfBatch, 2 * BatchSize + HalfBatch}

\* Value standing for Python's None / "no offset".
NoOffset == -1

(***************************************************************************)
(* Artifact names.  A batch artifact is stored under the key               *)
(* company_matches/batch_<offset_str>.json; the model keeps <offset_str>,  *)
(* a sequence of characters.                                               *)
(***************************************************************************)
DigitChar == <<"0", "1", "2", "3", "4", "5", "6", "7", "8", "9">>

Digits == {DigitChar[i] : i \in 1..10}

DigitVal(c) == (CHOOSE i \in 1..10 : DigitChar[i] = c) - 1

RECURSIVE ToDigits(_)
\* str(n) for n >= 0
ToDigits(n) ==
    IF n < 10 THEN <<DigitChar[n + 1]>>
    ELSE ToDigits(n \div 10) \o <<DigitChar[(n % 10) + 1]>>

RECURSIVE PadLeft(_, _)
PadLeft(s, w) == IF Len(s) >= w THEN s ELSE PadLeft(<<"0">> \o s, w)

\* f"{offset:04d}" of the matcher prompt: write_file('company_matches/batch_{current_offset:04d}.json')
ZeroPad4(n) == PadLeft(ToDigits(n), 4)

RECURSIVE DigitsValue(_)
DigitsValue(s) ==
    IF s = <<>> THEN 0
    ELSE DigitsValue(SubSeq(s, 1, Len(s) - 1)) * 10 + DigitVal(s[Len(s)])

AllDigits(s) == s # <<>> /\ \A i \in 1..Len(s) : s[i] \in Digits

\* int(offset_str): ok = FALSE stands for ValueError.
ParseInt(s) ==
    IF AllDigits(s) THEN [ok |-> TRUE, val |-> DigitsValue(s)]
    ELSE IF s # <<>> /\ s[1] = "-" /\ AllDigits(Tail(s))
         THEN [ok |-> TRUE, val |-> 0 - DigitsValue(Tail(s))]
         ELSE [ok |-> FALSE, val |-> 0]

\* Artifact names that may already lie in the run namespace when the first
\* process starts: well-formed batch names, a name with an offset that is
\* not a multiple of the batch size (the tool's docstring and the matcher
\* prompt both give batch_0050.json as an example), a name whose suffix is
\* not a number, and a negative number.
InitKeys ==
    {ZeroPad4(0), ZeroPad4(BatchSize), ZeroPad4(HalfBatch),
     <<"x">>, <<"-", "1", "0", "0">>}

\* The contents of the run namespace when the first process starts: empty,
\* a prefix of well-formed artifacts, a gap, and the odd names alone or
\* beside a well-formed artifact.
InitStores ==
    {s \in SUBSET InitKeys :
        \/ Cardinality(s) <= 1
        \/ s = {ZeroPad4(0), ZeroPad4(BatchSize)}
        \/ s = {ZeroPad4(0), ZeroPad4(HalfBatch)}
        \/ s = {ZeroPad4(0), <<"x">>}
        \/ s = {<<"x">>, <<"-", "1", "0", "0">>}}

(***************************************************************************)
(* State                                                                   *)
(***************************************************************************)
VARIABLES
    expected_offset,  \* SequentialBatchState.expected_offset
    completed,        \* SequentialBatchState.completed
    recovered,        \* SequentialBatchState.recovered
    batch_files,      \* offset_str of every company_matches/batch_*.json in S3
    total_count,      \* SELECT COUNT(*) of the source (fixed during a run)
    invalid_rows,     \* row positions that fail Company.is_valid_record
    response,         \* what the last get_companies_from_postgres call returned
    accepted,         \* the offsets this process accepted, in order
    fetched,          \* row positions the source returned to this process's accepted queries
    scanned,          \* batch_files as they were when this process recovered
    scan_ok,          \* whether that recovery's listing succeeded
    recovered_at,     \* expected_offset right after this process's recovery
    interrupted,      \* offset the previous process had accepted, but not written, when it crashed
    fresh_run,        \* the run namespace held no batch artifact when the first process started
    restarts_left     \* process restarts a driven run may still see

\* The record gate (SequentialCompanyState) and what it reads in S3.
VARIABLES
    companies_to_validate,  \* SequentialCompanyState.companies_to_validate
    current_index,          \* SequentialCompanyState.current_index
    last_queried_company,   \* SequentialCompanyState.last_queried_company
    initialized,            \* SequentialCompanyState.initialized
    validation_files,       \* paths of the validations/company_*.json objects in S3
    gate_call,              \* the last operation on the gate and what it returned
    last_accept_index,      \* current_index at this process's latest accepted query
    ok_index,               \* current_index after the latest recover_from_s3 whose listing succeeded
    recover_streak          \* recover_from_s3 calls in a row, nothing else in between (counted up to 2)

\* The aggregate documents of the run namespace in S3 and the last
\* consolidation or merge tool call.
VARIABLES
    matched_companies,   \* matched_companies.json
    validated_results,   \* validated_results.json
    final_rankings,      \* final_rankings.json
    tool_call            \* the last consolidation or merge call and what it returned

batch_vars ==
    <<expected_offset, completed, recovered, batch_files, total_count,
      invalid_rows, response, accepted, fetched, scanned, scan_ok,
      recovered_at, interrupted, fresh_run, restarts_left>>

gate_vars ==
    <<companies_to_validate, current_index, last_queried_company, initialized,
      validation_files, gate_call, last_accept_index, ok_index, recover_streak>>

aggregate_vars == <<matched_companies, validated_results, final_rankings, tool_call>>

vars == <<batch_vars, gate_vars, aggregate_vars>>

\* An aggregate key that holds no object, and no tool call yet.
NoDoc == [kind |-> "absent"]
NoToolCall == [op |-> "none", status |-> "none", error |-> "", listing |-> <<>>,
               reads_ok |-> TRUE, validations_ok |-> TRUE, put |-> FALSE,
               raised |-> FALSE]

\* No aggregate has been written and no consolidation tool has run.
AggregateInit ==
    /\ matched_companies = NoDoc
    /\ validated_results = NoDoc
    /\ final_rankings = NoDoc
    /\ tool_call = NoToolCall

gate == <<companies_to_validate, current_index, last_queried_company, initialized>>

\* last_queried_company = None (a value no ticker equals)
NoCompany == <<"None">>

\* No index recorded yet.
NoIndex == -1

\* gate_call before any operation of a process.
NoCall ==
    [op |-> "none", symbols |-> <<>>, skip |-> 0, ok |-> FALSE, error |-> "",
     listing |-> "none", raised |-> FALSE]

\* SequentialCompanyState.__init__, with the history of a new process.
GateInit ==
    /\ companies_to_validate = <<>>
    /\ current_index = 0
    /\ last_queried_company = NoCompany
    /\ initialized = FALSE
    /\ gate_call = NoCall
    /\ last_accept_index = NoIndex
    /\ ok_index = NoIndex
    /\ recover_streak = 0

cursor == <<expected_offset, completed, recovered>>

source == <<total_count, invalid_rows>>

NoResponse ==
    [kind |-> "none", error |-> "", expected |-> NoOffset, requested |-> NoOffset,
     offset |-> NoOffset, returned |-> 0, total_count |-> 0,
     has_more |-> FALSE]

(***************************************************************************)
(* S3Backend                                                               *)
(***************************************************************************)
\* A listing that cannot fail (it differs from the code below).
GlobInfoAlwaysLists(files, list_ok) == files

\* S3Backend.glob_info('company_matches/batch_*.json'): the matching keys,
\* or [] when list_objects_v2 raises (the exception is logged and swallowed).
GlobInfo(files, list_ok) == IF list_ok THEN files ELSE {}

\* Whether some stored batch artifact carries offset o in its name.
HasArtifact(files, o) ==
    \E k \in files : ParseInt(k).ok /\ ParseInt(k).val = o

(***************************************************************************)
(* SequentialBatchState                                                    *)
(***************************************************************************)
RECURSIVE MaxOffset(_)
\* The loop of recover_from_s3: max_offset = -1; for each file, offset =
\* int(offset_str), max_offset = max(max_offset, offset); ValueError skipped.
MaxOffset(files) ==
    IF files = {} THEN NoOffset
    ELSE LET k == CHOOSE x \in files : TRUE
             rest == MaxOffset(files \ {k})
             p == ParseInt(k)
         IN IF p.ok /\ p.val > rest THEN p.val ELSE rest

\* Variant of recover_from_s3 that resumes at the highest batch found
\* instead of the one after it.
RecoverFromS3AtMax(exp, existing_files) ==
    IF existing_files = {} THEN exp
    ELSE IF MaxOffset(existing_files) >= 0
         THEN MaxOffset(existing_files)
         ELSE exp

\* Variant of recover_from_s3 that counts the files found instead of
\* reading the highest offset.
RecoverFromS3Count(exp, existing_files) ==
    IF existing_files = {} THEN exp
    ELSE Cardinality(existing_files) * BatchSize

\* recover_from_s3: expected_offset after the scan of existing_files.
RecoverFromS3(exp, existing_files) ==
    IF existing_files = {} THEN exp
    ELSE IF MaxOffset(existing_files) >= 0
         THEN MaxOffset(existing_files) + BatchSize
         ELSE exp

\* A recovery that scans storage in every call (it differs from the code
\* below).
RecoverEveryCall(rec, exp, existing_files) == RecoverFromS3(exp, existing_files)

\* The head of validate_and_update: 'if not self.recovered:
\* self.recover_from_s3()', and the guard 'if self.recovered: return'.
RecoverOnce(rec, exp, existing_files) ==
    IF rec THEN exp ELSE RecoverFromS3(exp, existing_files)

\* The two rejections of validate_and_update.
AlreadyProcessed == "ALL_BATCHES_ALREADY_PROCESSED"

BatchViolation == "SEQUENTIAL_BATCH_VIOLATION"

\* Variant of validate_and_update that rejects only offsets below the
\* expected one, so that the caller may jump ahead.
ValidateAndUpdateAtLeast(exp, comp, requested_offset) ==
    IF comp
    THEN [ok |-> FALSE, error |-> AlreadyProcessed,
          expected |-> NoOffset, requested |-> NoOffset, next |-> exp]
    ELSE IF requested_offset < exp
         THEN [ok |-> FALSE, error |-> BatchViolation,
               expected |-> exp, requested |-> requested_offset, next |-> exp]
         ELSE [ok |-> TRUE, error |-> "",
               expected |-> NoOffset, requested |-> NoOffset,
               next |-> requested_offset + BatchSize]

\* Variant of validate_and_update without the completed check.
ValidateAndUpdateIgnoreCompleted(exp, comp, requested_offset) ==
    IF requested_offset # exp
    THEN [ok |-> FALSE, error |-> BatchViolation,
          expected |-> exp, requested |-> requested_offset, next |-> exp]
    ELSE [ok |-> TRUE, error |-> "",
          expected |-> NoOffset, requested |-> NoOffset,
          next |-> exp + BatchSize]

\* Variant of validate_and_update that moves the cursor to the requested
\* offset when it rejects.
ValidateAndUpdateMoveOnReject(exp, comp, requested_offset) ==
    IF comp
    THEN [ok |-> FALSE, error |-> AlreadyProcessed,
          expected |-> NoOffset, requested |-> NoOffset, next |-> exp]
    ELSE IF requested_offset # exp
         THEN [ok |-> FALSE, error |-> BatchViolation,
               expected |-> exp, requested |-> requested_offset,
               next |-> requested_offset]
         ELSE [ok |-> TRUE, error |-> "",
               expected |-> NoOffset, requested |-> NoOffset,
               next |-> exp + BatchSize]

\* Variant of validate_and_update that accepts the expected offset without
\* advancing the cursor.
ValidateAndUpdateNoAdvance(exp, comp, requested_offset) ==
    IF comp
    THEN [ok |-> FALSE, error |-> AlreadyProcessed,
          expected |-> NoOffset, requested |-> NoOffset, next |-> exp]
    ELSE IF requested_offset # exp
         THEN [ok |-> FALSE, error |-> BatchViolation,
               expected |-> exp, requested |-> requested_offset, next |-> exp]
         ELSE [ok |-> TRUE, error |-> "",
               expected |-> NoOffset, requested |-> NoOffset, next |-> exp]

\* validate_and_update after the recovery step: (is_valid, error), and the
\* expected_offset it leaves.
ValidateAndUpdate(exp, comp, requested_offset) ==
    IF comp
    THEN [ok |-> FALSE, error |-> AlreadyProcessed,
          expected |-> NoOffset, requested |-> NoOffset, next |-> exp]
    ELSE IF requested_offset # exp
         THEN [ok |-> FALSE, error |-> BatchViolation,
               expected |-> exp, requested |-> requested_offset, next |-> exp]
         ELSE [ok |-> TRUE, error |-> "",
               expected |-> NoOffset, requested |-> NoOffset,
               next |-> exp + BatchSize]

\* A mark_complete that leaves the flag as it is (it differs from the code
\* below).
MarkCompleteKeepsFlag(comp) == comp

\* mark_complete
MarkComplete(comp) == TRUE

(***************************************************************************)
(* get_companies_from_postgres                                             *)
(***************************************************************************)
Min(a, b) == IF a <= b THEN a ELSE b

\* query_postgres(sql, (limit, offset)): ORDER BY ticker LIMIT limit OFFSET offset
QueryPostgres(total, limit, offset) ==
    {p \in 0..(total - 1) : offset <= p /\ p < offset + limit}

\* rows kept by Company.is_valid_record
ValidCompanies(rows, invalid) == rows \ invalid

HasMore(offset, returned, total) == (offset + returned) < total

\* The error response of a rejected call.
ErrorResponse(v, offset) ==
    [kind |-> "error", error |-> v.error, expected |-> v.expected,
     requested |-> v.requested, offset |-> offset,
     returned |-> 0, total_count |-> 0, has_more |-> FALSE]

\* What the caller is left with when query_postgres raises: no response.
RaisedResponse(offset) ==
    [kind |-> "raised", error |-> "", expected |-> NoOffset,
     requested |-> NoOffset, offset |-> offset,
     returned |-> 0, total_count |-> 0, has_more |-> FALSE]

\* One call of the tool.  list_ok is the outcome of the storage listing of
\* the recovery scan, which runs in the first call of a process only.
\* db_ok says whether the two query_postgres calls went through: nothing in
\* the tool catches what they raise, so a failure leaves the tool as an
\* exception after the cursor has advanced and before mark_complete.
GetCompaniesFromPostgres(offset, limit, list_ok, db_ok) ==
    /\ (recovered => list_ok)
    /\ LET exp == RecoverOnce(recovered, expected_offset, GlobInfo(batch_files, list_ok))
           v == ValidateAndUpdate(exp, completed, offset)
           lim == Min(limit, MaxLimit)
           companies_raw == QueryPostgres(total_count, lim, offset)
           valid == ValidCompanies(companies_raw, invalid_rows)
           has_more == HasMore(offset, Cardinality(valid), total_count)
       IN /\ recovered' = TRUE
          /\ scanned' = IF recovered THEN scanned ELSE batch_files
          /\ scan_ok' = IF recovered THEN scan_ok ELSE list_ok
          /\ recovered_at' = IF recovered THEN recovered_at ELSE exp
          /\ expected_offset' = v.next
          /\ (~v.ok => db_ok)
          /\ IF ~v.ok
             THEN /\ response' = ErrorResponse(v, offset)
                  /\ UNCHANGED <<completed, accepted, fetched>>
             ELSE IF ~db_ok
             THEN /\ accepted' = Append(accepted, offset)
                  /\ response' = RaisedResponse(offset)
                  /\ UNCHANGED <<completed, fetched>>
             ELSE /\ accepted' = Append(accepted, offset)
                  /\ fetched' = fetched \cup companies_raw
                  /\ completed' = IF ~has_more THEN MarkComplete(completed) ELSE completed
                  /\ response' =
                        [kind |-> "ok", error |-> "", expected |-> NoOffset,
                         requested |-> NoOffset, offset |-> offset,
                         returned |-> Cardinality(valid), total_count |-> total_count,
                         has_more |-> has_more]
    /\ UNCHANGED <<batch_files, source, interrupted, fresh_run, restarts_left>>
    /\ UNCHANGED <<gate_vars, aggregate_vars>>

\* The driving agent stores the matches of a batch it was given:
\* write_file('company_matches/batch_<offset:04d>.json', ...).  It may do so
\* late, or never.
WriteBatchFile(o) ==
    /\ \E i \in 1..Len(accepted) : accepted[i] = o
    /\ ZeroPad4(o) \notin batch_files
    /\ batch_files' = batch_files \cup {ZeroPad4(o)}
    /\ UNCHANGED <<cursor, source, response, accepted, fetched, scanned, scan_ok,
                   recovered_at, interrupted, fresh_run, restarts_left>>
    /\ UNCHANGED <<gate_vars, aggregate_vars>>

\* The process dies and a new one starts on the same run namespace: the
\* module globals are rebuilt (_batch_state = None, then
\* SequentialBatchState.__init__ on the first call), S3 keeps its objects.
Restart ==
    /\ expected_offset' = 0
    /\ completed' = FALSE
    /\ recovered' = FALSE
    /\ response' = NoResponse
    /\ accepted' = <<>>
    /\ fetched' = {}
    /\ scanned' = {}
    /\ scan_ok' = FALSE
    /\ recovered_at' = NoOffset
    /\ interrupted' =
          IF accepted # <<>> /\ ~HasArtifact(batch_files, accepted[Len(accepted)])
          THEN accepted[Len(accepted)]
          ELSE NoOffset
    /\ UNCHANGED <<batch_files, source, fresh_run>>
    /\ UNCHANGED <<gate_vars, aggregate_vars>>

\* A restart at any time, as often as the environment likes.
Crash == Restart /\ UNCHANGED restarts_left

Init ==
    /\ expected_offset = 0
    /\ completed = FALSE
    /\ recovered = FALSE
    /\ batch_files \in InitStores
    /\ total_count \in TotalCounts
    /\ invalid_rows \in {{}} \cup {{p} : p \in {BatchSize - 1} \cap (0..(total_count - 1))}
    /\ response = NoResponse
    /\ accepted = <<>>
    /\ fetched = {}
    /\ scanned = {}
    /\ scan_ok = FALSE
    /\ recovered_at = NoOffset
    /\ interrupted = NoOffset
    /\ fresh_run = (batch_files = {})
    /\ restarts_left = MaxRestarts
    /\ GateInit
    /\ validation_files = {}
    /\ AggregateInit

Next ==
    \/ \E offset \in RequestOffsets, limit \in Limits, list_ok \in BOOLEAN :
          GetCompaniesFromPostgres(offset, limit, list_ok, TRUE)
    \/ \E o \in RequestOffsets : WriteBatchFile(o)
    \/ Crash

Spec == Init /\ [][Next]_vars

\* The batch stage with a database that may fail: every call asks for one
\* batch (limit = batch_size) and query_postgres may raise.
NextDatabase ==
    \/ \E offset \in RequestOffsets, list_ok \in BOOLEAN, db_ok \in BOOLEAN :
          GetCompaniesFromPostgres(offset, BatchSize, list_ok, db_ok)
    \/ \E o \in RequestOffsets : WriteBatchFile(o)
    \/ Crash

\* Its sources: an empty one and one that ends inside its second batch,
\* every row valid.
InitDatabase ==
    /\ Init
    /\ total_count \in {0, BatchSize + HalfBatch}
    /\ invalid_rows = {}

SpecDatabase == InitDatabase /\ [][NextDatabase]_vars

\* The batch stage under the driving agent of the pipeline: it asks for the
\* offset the cursor expects next, one batch at a time, stores the matches
\* of every batch it was given before it asks again, and stops when a
\* response says has_more = false.  The database is reliable.
NextSequentialOffset(list_ok) ==
    RecoverOnce(recovered, expected_offset, GlobInfo(batch_files, list_ok))

\* The batch this process accepted last has no artifact yet.
WritePending ==
    /\ accepted # <<>>
    /\ ZeroPad4(accepted[Len(accepted)]) \notin batch_files

\* The largest offset a driven run asks for: every process begins at most
\* one batch after the last artifact, so a run of MaxRestarts + 1 processes
\* over a source of at most MaxBatches full batches stays below it.
MaxDriverOffset == (MaxBatches + MaxRestarts + 1) * BatchSize

DriverQuery ==
    /\ ~completed
    /\ ~WritePending
    /\ \E list_ok \in BOOLEAN :
          /\ NextSequentialOffset(list_ok) <= MaxDriverOffset
          /\ GetCompaniesFromPostgres(NextSequentialOffset(list_ok), BatchSize,
                                      list_ok, TRUE)

DriverWrite ==
    /\ WritePending
    /\ WriteBatchFile(accepted[Len(accepted)])

\* The process dies and restarts, MaxRestarts times at most.
DriverRestart ==
    /\ restarts_left > 0
    /\ Restart
    /\ restarts_left' = restarts_left - 1

NextDriver ==
    \/ DriverQuery
    \/ DriverWrite
    \/ DriverRestart

\* The agent loop keeps calling its tools while the process lives, so a
\* query or a write that stays possible is eventually made.
SpecDriver ==
    /\ Init
    /\ [][NextDriver]_vars
    /\ WF_vars(DriverQuery)
    /\ WF_vars(DriverWrite)

(***************************************************************************)
(* Properties of the batch cursor                                          *)
(***************************************************************************)
\* A step in which get_companies_from_postgres ran and changed something.
\* (A call that changes nothing is a rejected call repeated verbatim.)
GetStep ==
    /\ recovered'
    /\ (~recovered \/ response' # response \/ expected_offset' # expected_offset)

\* The artifacts batch_0000 .. batch_<(n-1)*batch_size>, and nothing else.
PrefixStore(n) == {ZeroPad4(k * BatchSize) : k \in 0..(n - 1)}

\* C1: in a process that found no batch artifact in storage, the k-th
\* accepted offset (k = 0, 1, 2, ...) is k * batch_size, whatever offsets
\* the caller tried in between.
C1_AcceptedSequence ==
    (recovered /\ scanned = {}) =>
        \A k \in 1..Len(accepted) : accepted[k] = (k - 1) * BatchSize

\* C1 witness: two offsets accepted from an empty store, and the last call
\* was an out-of-order request that was rejected.
C1_Witness ==
    /\ recovered
    /\ scanned = {}
    /\ Len(accepted) = 2
    /\ response.error = BatchViolation

\* C2: once the cursor is completed, within the process completed stays
\* true, no call is accepted any more (every call is answered with the
\* already-processed rejection, also one for the current expected_offset),
\* and mark_complete applied again changes nothing.
C2_CompleteIsFinal ==
    [][(completed /\ recovered') =>
          /\ completed'
          /\ accepted' = accepted
          /\ expected_offset' = expected_offset
          /\ (GetStep => response'.kind = "error" /\ response'.error = AlreadyProcessed)
          /\ MarkComplete(completed') = completed']_vars

\* C2 witness: a completed cursor has just rejected a request for its
\* current expected_offset.
C2_Witness ==
    /\ completed
    /\ response.kind = "error"
    /\ response.error = AlreadyProcessed
    /\ response.offset = expected_offset

\* C3 as stated: whenever the store holds exactly the N >= 1 artifacts for
\* offsets 0 .. (N-1)*batch_size at the recovery scan, the cursor has
\* expected_offset = N*batch_size after recovery.
C3_AsStated ==
    \A n \in 1..(MaxBatches + 1) :
        (recovered /\ scanned = PrefixStore(n)) => recovered_at = n * BatchSize

\* C3 amended: the same, provided the listing of the recovery scan
\* succeeded; the first offset accepted is then N*batch_size.
C3_RecoveryFromPrefix ==
    \A n \in 1..(MaxBatches + 1) :
        (recovered /\ scan_ok /\ scanned = PrefixStore(n)) =>
            /\ recovered_at = n * BatchSize
            /\ (accepted # <<>> => accepted[1] = n * BatchSize)

\* C3 witness: recovery listed batch_0000 and batch_0100, and offset 200
\* was then accepted.
C3_Witness ==
    /\ recovered
    /\ scan_ok
    /\ scanned = PrefixStore(2)
    /\ accepted = <<2 * BatchSize>>

\* C4: expected_offset is a non-negative multiple of batch_size in every
\* reachable state, also after recovery from whatever batch artifacts the
\* store holds.
C4_MultipleOfBatchSize ==
    expected_offset >= 0 /\ expected_offset % BatchSize = 0

\* A call whose outcome is the sequencing rejection that names expected
\* offset e, and that leaves the cursor at e and completed as it was.
RejectedUnchanged(e) ==
    /\ response'.kind = "error"
    /\ response'.error = BatchViolation
    /\ response'.expected = e
    /\ response'.requested = response'.offset
    /\ expected_offset' = e
    /\ completed' = completed

\* C5 as stated: a call whose requested offset differs from expected_offset
\* is rejected with a message naming both offsets and leaves
\* expected_offset and completed unchanged.
C5_AsStated ==
    [][(GetStep /\ response'.offset # expected_offset) =>
          RejectedUnchanged(expected_offset)]_vars

\* C5 amended: on a cursor that is not completed, a call whose requested
\* offset differs from expected_offset as it stands after the call's
\* one-shot recovery is rejected with a message naming both offsets; it
\* leaves completed unchanged and expected_offset at that value, and a
\* retry with the offset named as expected is accepted.
C5_RejectionIsRetrySafe ==
    [][LET e == IF recovered THEN expected_offset ELSE recovered_at'
       IN (GetStep /\ ~completed /\ response'.offset # e) =>
             /\ RejectedUnchanged(e)
             /\ ValidateAndUpdate(expected_offset', completed', response'.expected).ok]_vars

\* C5 witness: after an accepted batch, an out-of-order request was
\* rejected and the cursor still waits for the offset the rejection names.
C5_Witness ==
    /\ accepted # <<>>
    /\ ~completed
    /\ response.kind = "error"
    /\ response.error = BatchViolation
    /\ response.expected = expected_offset
    /\ response.requested # expected_offset

\* No stored artifact carries an offset >= o.
NoArtifactFrom(files, o) ==
    \A k \in files : ParseInt(k).ok => ParseInt(k).val < o

C9_Exhaustive ==
    (completed /\ scanned = {}) => (0..(total_count - 1)) \subseteq fetched

\* C10: a response carries has_more = false only when the cursor is
\* completed after the call.
C10_HasMoreFalseMeansComplete ==
    (response.kind \in {"ok", "error"} /\ ~response.has_more) => completed


\* The first get_companies_from_postgres call of a process, whose recovery
\* scan got nothing from storage because the listing failed.
FailedScanStep == ~recovered /\ recovered' /\ ~scan_ok'

\* C31: if the storage listing fails during the batch cursor's recovery, no
\* error reaches the caller of validate_and_update: recovered becomes true,
\* expected_offset stays 0 and completed stays false, and the triggering
\* call is validated against expected_offset 0: offset 0 is accepted, any
\* other offset gets the sequencing rejection that names 0.
C31_FailedScanStartsAtZero ==
    [][FailedScanStep =>
          /\ recovered'
          /\ recovered_at' = 0
          /\ IF response'.offset = 0
             THEN /\ response'.kind = "ok"
                  /\ accepted' = <<0>>
                  /\ expected_offset' = BatchSize
             ELSE /\ response'.kind = "error"
                  /\ response'.error = BatchViolation
                  /\ response'.expected = 0
                  /\ expected_offset' = 0
                  /\ ~completed']_vars

\* C31 (witness): storage holds batch artifacts, the listing of the
\* recovery scan failed, and offset 0 was accepted.
C31_Witness ==
    /\ recovered
    /\ ~scan_ok
    /\ \E k \in scanned : ParseInt(k).ok /\ ParseInt(k).val >= 0
    /\ accepted = <<0>>
    /\ response.kind = "ok"

\* C32: the recovery scan takes effect at most once per process: after the
\* first validate_and_update call has run, a later call is validated
\* against the cursor as it stands, the record of the scan does not change,
\* and artifacts that appear in storage do not change expected_offset.
C32_RecoveryOneShot ==
    [][(recovered /\ recovered') =>
          /\ <<scanned', scan_ok', recovered_at'>> = <<scanned, scan_ok, recovered_at>>
          /\ expected_offset' \in {expected_offset, expected_offset + BatchSize}
          /\ (batch_files' # batch_files => expected_offset' = expected_offset)
          /\ (GetStep /\ ~completed) =>
                /\ (response'.kind = "error") = (response'.offset # expected_offset)
                /\ (response'.kind = "error" => response'.expected = expected_offset)]_vars

\* C32 (witness): a process whose scan listed batch_0000 accepted offset 100
\* and then offset 200, although a new scan would have named 100 again.
C32_Witness ==
    /\ recovered
    /\ scan_ok
    /\ MaxOffset(batch_files) = 0
    /\ accepted = <<BatchSize, 2 * BatchSize>>
    /\ response.kind = "ok"

\* C33: completed becomes true on the first accepted call for which
\* offset + number of rows returned by the source >= total_count, and on no
\* earlier call, for every total_count and every mix of valid and invalid
\* rows.
C33_CompleteAtSourceEnd ==
    [][\A offset \in RequestOffsets, limit \in Limits, list_ok \in BOOLEAN :
          (GetCompaniesFromPostgres(offset, limit, list_ok, TRUE) /\ response'.kind = "ok")
             => (completed' =
                   (offset + Cardinality(QueryPostgres(total_count, Min(limit, MaxLimit), offset))
                       >= total_count))]_vars

\* C33 (what does hold): completed becomes true on the accepted call for
\* which offset + number of valid rows returned >= total_count.
C33_CompleteAtValidEnd ==
    [][(GetStep /\ response'.kind = "ok") =>
          (completed' = (response'.offset + response'.returned >= total_count))]_vars


\* C39: if the database query fails after the cursor accepted offset o,
\* expected_offset remains o + batch_size and completed remains false; a
\* later call of the same process for an offset it has accepted is rejected
\* and leaves the cursor alone; and whatever offset a process accepts, its
\* recovery scan listed no batch artifact at or above it.
C39_FailedQueryKeepsAdvance ==
    [][/\ (GetStep /\ response'.kind = "raised") =>
             /\ accepted' = Append(accepted, response'.offset)
             /\ expected_offset' = response'.offset + BatchSize
             /\ ~completed'
       /\ (GetStep /\ recovered /\ \E i \in 1..Len(accepted) : accepted[i] = response'.offset) =>
             /\ response'.kind = "error"
             /\ expected_offset' = expected_offset
             /\ completed' = completed
       /\ recovered' =>
             \A i \in 1..Len(accepted') :
                 NoArtifactFrom(GlobInfo(scanned', scan_ok'), accepted'[i])]_vars

\* C39 (witness): the query for offset 0 was accepted and failed in an
\* earlier process, which wrote nothing; the present process accepted
\* offset 0 again, its query failed as well, and its retry of offset 0 has
\* just been rejected with the cursor at batch_size.
C39_Witness ==
    /\ interrupted = 0
    /\ recovered
    /\ accepted = <<0>>
    /\ total_count > 0
    /\ fetched = {}
    /\ response.kind = "error"
    /\ response.offset = 0
    /\ response.expected = BatchSize
    /\ expected_offset = BatchSize
    /\ ~completed


(***************************************************************************)
(* The record gate: SequentialCompanyState and the tools that drive it     *)
(***************************************************************************)
\* Longest worklist of the model.
MaxWorklist == 2

\* config.PRESS_RELEASE_BATCH_SIZE, the page size a paginating caller skips by
PressReleaseBatchSize == 100

TickerNames == <<"A", "B", "C", "D">>

\* A ticker is a string of characters, written as a sequence.
Tickers == {<<TickerNames[i]>> : i \in 1..MaxWorklist}

\* The ticker lists matched_companies.json may hold: in rank order, in
\* another order, and with a repeated ticker.
Worklists ==
    {[i \in 1..n |-> <<TickerNames[i]>>] : n \in 0..MaxWorklist}
        \cup {<< <<"B">>, <<"A">> >>, << <<"A">>, <<"A">> >>}

\* The symbols argument of get_press_releases_from_mongodb, as characters.
SymbolInputs ==
    Tickers \cup {<<>>, <<" ", "A", ",">>, <<"A", ",", "B">>}

Skips == {0, PressReleaseBatchSize}

\* f'validations/company_{ticker}.json'
ValidationPath(ticker) == <<"validations/company_">> \o ticker \o <<".json">>

\* path.startswith('validations/company_') and path.endswith('.json')
IsValidationPath(path) ==
    /\ Len(path) >= 2
    /\ path[1] = "validations/company_"
    /\ path[Len(path)] = ".json"

\* path.replace('validations/company_', '').replace('.json', '')
TickerOfPath(path) ==
    SelectSeq(path, LAMBDA c : c \notin {"validations/company_", ".json"})

\* symbols.split(",")
RECURSIVE SplitComma(_)
SplitComma(s) ==
    IF s = <<>> THEN << <<>> >>
    ELSE IF Head(s) = "," THEN << <<>> >> \o SplitComma(Tail(s))
    ELSE LET rest == SplitComma(Tail(s))
         IN << <<Head(s)>> \o rest[1] >> \o Tail(rest)

\* str.strip()
RECURSIVE Strip(_)
Strip(s) ==
    IF s = <<>> THEN s
    ELSE IF Head(s) = " " THEN Strip(Tail(s))
    ELSE IF s[Len(s)] = " " THEN Strip(SubSeq(s, 1, Len(s) - 1))
    ELSE s

\* [s.strip() for s in symbols.split(",") if s.strip()]
SymbolList(symbols) ==
    LET parts == SplitComma(symbols)
        stripped == [i \in 1..Len(parts) |-> Strip(parts[i])]
    IN SelectSeq(stripped, LAMBDA x : x # <<>>)

\* S3Backend.read: every exception, a missing key included, is caught and
\* turned into the returned text, so the call never raises.
S3Read(files, path) ==
    [raised |-> FALSE,
     text |-> IF path \in files THEN "content" ELSE "Error reading file"]

\* S3Backend.write then the object store: a failed put leaves no object.
S3Write(files, path, write_ok) ==
    IF write_ok THEN files \cup {path} ELSE files

\* the completed_tickers set built by recover_from_s3
CompletedTickers(existing_files) ==
    {TickerOfPath(p) : p \in {q \in existing_files : IsValidationPath(q)}}

\* for i, ticker in enumerate(companies_to_validate): ... break / else: len
RECURSIVE FirstNotCompleted(_, _, _)
FirstNotCompleted(worklist, done, i) ==
    IF i >= Len(worklist) THEN Len(worklist)
    ELSE IF worklist[i + 1] \notin done THEN i
    ELSE FirstNotCompleted(worklist, done, i + 1)

\* mark_file_written that clears the pending company and stays at its
\* position
MarkFileWrittenNoAdvance(idx, pend, symbol) ==
    IF pend = symbol
    THEN [index |-> idx, pending |-> NoCompany]
    ELSE [index |-> idx, pending |-> pend]

\* mark_file_written without the test against the pending company
MarkFileWrittenAlways(idx, pend, symbol) ==
    [index |-> idx + 1, pending |-> NoCompany]

\* mark_file_written
MarkFileWritten(idx, pend, symbol) ==
    IF pend = symbol
    THEN [index |-> idx + 1, pending |-> NoCompany]
    ELSE [index |-> idx, pending |-> pend]

\* recover_from_s3 resuming after as many entries as have an artifact,
\* wherever they are in the worklist.
CompanyRecoverFromS3Count(worklist, idx, pend, backend_ok, existing_files) ==
    IF ~backend_ok
    THEN [index |-> idx, pending |-> pend]
    ELSE [index |-> Cardinality({j \in 1..Len(worklist) :
                        worklist[j] \in CompletedTickers(existing_files)}),
          pending |-> NoCompany]

\* recover_from_s3 moving on from where the cursor stands, by the number of
\* entries that have an artifact.
CompanyRecoverFromS3Add(worklist, idx, pend, backend_ok, existing_files) ==
    IF ~backend_ok
    THEN [index |-> idx, pending |-> pend]
    ELSE [index |-> Min(Len(worklist),
                        idx + Cardinality({j \in 1..Len(worklist) :
                                 worklist[j] \in CompletedTickers(existing_files)})),
          pending |-> NoCompany]

\* SequentialCompanyState.recover_from_s3.  backend_ok: the S3Backend
\* constructor did not raise; existing_files: what glob_info returned.
CompanyRecoverFromS3(worklist, idx, pend, backend_ok, existing_files) ==
    IF ~backend_ok
    THEN [index |-> idx, pending |-> pend]
    ELSE [index |-> FirstNotCompleted(worklist, CompletedTickers(existing_files), 0),
          pending |-> NoCompany]

\* initialize_from_matches; matches is the ticker list of the aggregate.
InitializeFromMatches(worklist, idx, pend, init, matches, backend_ok, existing_files) ==
    IF init
    THEN [worklist |-> worklist, index |-> idx, pending |-> pend, initialized |-> init]
    ELSE LET r == CompanyRecoverFromS3(matches, idx, pend, backend_ok, existing_files)
         IN [worklist |-> matches, index |-> r.index, pending |-> r.pending,
             initialized |-> TRUE]

NotInitialized == "NOT INITIALIZED"
OneAtATime == "COMPANY VALIDATION VIOLATION"
MustWriteFirst == "MUST WRITE FILE FIRST"
AllValidated == "ALL COMPANIES VALIDATED"
WrongOrder == "WRONG COMPANY ORDER"
PaginationViolation == "PAGINATION VIOLATION"

\* The pending-file check without the storage lookup: a pending company is
\* cleared by the explicit signal only.
PendingCheckSignalOnly(idx, pend, files, backend_ok) ==
    [blocked |-> FALSE, index |-> idx, pending |-> pend]

\* The pending-file check of validate_and_update: the inner try around
\* s3_backend.read and the outer try around the S3Backend constructor.
PendingCheck(idx, pend, files, backend_ok) ==
    IF pend = NoCompany \/ ~backend_ok
    THEN [blocked |-> FALSE, index |-> idx, pending |-> pend]
    ELSE IF S3Read(files, ValidationPath(pend)).raised
         THEN [blocked |-> TRUE, index |-> idx, pending |-> pend]
         ELSE LET m == MarkFileWritten(idx, pend, pend)
              IN [blocked |-> FALSE, index |-> m.index, pending |-> m.pending]

\* validate_and_update without the order check: any single symbol is
\* accepted while the worklist is not exhausted.
CompanyValidateAndUpdateAnyOrder(worklist, idx, pend, init, files, symbols, skip, backend_ok) ==
    LET symbol_list == SymbolList(symbols)
        c == PendingCheck(idx, pend, files, backend_ok)
    IN IF ~init
       THEN [ok |-> FALSE, error |-> NotInitialized, index |-> idx, pending |-> pend]
       ELSE IF Len(symbol_list) # 1
       THEN [ok |-> FALSE, error |-> OneAtATime, index |-> idx, pending |-> pend]
       ELSE IF c.blocked
       THEN [ok |-> FALSE, error |-> MustWriteFirst, index |-> c.index, pending |-> c.pending]
       ELSE IF c.index >= Len(worklist)
       THEN [ok |-> FALSE, error |-> AllValidated, index |-> c.index, pending |-> c.pending]
       ELSE IF skip # 0
       THEN [ok |-> FALSE, error |-> PaginationViolation, index |-> c.index, pending |-> c.pending]
       ELSE [ok |-> TRUE, error |-> "", index |-> c.index, pending |-> symbol_list[1]]

\* validate_and_update(symbols, skip), as get_press_releases_from_mongodb
\* calls it (matched_companies_json is never passed).
CompanyValidateAndUpdate(worklist, idx, pend, init, files, symbols, skip, backend_ok) ==
    LET symbol_list == SymbolList(symbols)
        c == PendingCheck(idx, pend, files, backend_ok)
    IN IF ~init
       THEN [ok |-> FALSE, error |-> NotInitialized, index |-> idx, pending |-> pend]
       ELSE IF Len(symbol_list) # 1
       THEN [ok |-> FALSE, error |-> OneAtATime, index |-> idx, pending |-> pend]
       ELSE IF c.blocked
       THEN [ok |-> FALSE, error |-> MustWriteFirst, index |-> c.index, pending |-> c.pending]
       ELSE IF c.index >= Len(worklist)
       THEN [ok |-> FALSE, error |-> AllValidated, index |-> c.index, pending |-> c.pending]
       ELSE IF symbol_list[1] # worklist[c.index + 1]
       THEN [ok |-> FALSE, error |-> WrongOrder, index |-> c.index, pending |-> c.pending]
       ELSE IF skip # 0
       THEN [ok |-> FALSE, error |-> PaginationViolation, index |-> c.index, pending |-> c.pending]
       ELSE [ok |-> TRUE, error |-> "", index |-> c.index, pending |-> symbol_list[1]]

\* ValidationFileTrackerMiddleware.after_tool for a write_file call
AfterTool(idx, pend, file_path) ==
    IF IsValidationPath(file_path)
    THEN MarkFileWritten(idx, pend, TickerOfPath(file_path))
    ELSE [index |-> idx, pending |-> pend]

Call(op, symbols, skip, ok, error, listing) ==
    [op |-> op, symbols |-> symbols, skip |-> skip, ok |-> ok, error |-> error,
     listing |-> listing, raised |-> FALSE]

ListingOutcome(backend_ok, list_ok) ==
    IF ~backend_ok THEN "raised" ELSE IF list_ok THEN "ok" ELSE "empty"

\* get_press_releases_from_mongodb: the gate decides; the query that follows
\* an acceptance does not touch the gate.  db_ok says whether MongoClient,
\* count_documents and query_mongodb went through: nothing catches what they
\* raise, so a failure leaves the tool as an exception, after the gate has
\* recorded the acceptance.
GetPressReleasesFromMongodb(symbols, skip, backend_ok, db_ok) ==
    /\ (last_queried_company = NoCompany => backend_ok)
    /\ LET v == CompanyValidateAndUpdate(companies_to_validate, current_index,
                    last_queried_company, initialized, validation_files,
                    symbols, skip, backend_ok)
       IN /\ current_index' = v.index
          /\ last_queried_company' = v.pending
          /\ (~v.ok => db_ok)
          /\ gate_call' = [Call("query", symbols, skip, v.ok, v.error,
                                IF backend_ok THEN "none" ELSE "raised")
                               EXCEPT !.raised = v.ok /\ ~db_ok]
          /\ last_accept_index' = IF v.ok THEN v.index ELSE last_accept_index
    /\ recover_streak' = 0
    /\ UNCHANGED <<companies_to_validate, initialized, validation_files, ok_index>>
    /\ UNCHANGED <<batch_vars, aggregate_vars>>

\* A call of initialize_from_matches with the aggregate's ticker list.
InitializeFromMatchesCall(matches, backend_ok, list_ok) ==
    /\ (initialized \/ ~backend_ok) => list_ok
    /\ LET r == InitializeFromMatches(companies_to_validate, current_index,
                    last_queried_company, initialized, matches, backend_ok,
                    GlobInfo(validation_files, list_ok))
           scanned_now == ~initialized /\ backend_ok
       IN /\ companies_to_validate' = r.worklist
          /\ current_index' = r.index
          /\ last_queried_company' = r.pending
          /\ initialized' = r.initialized
          /\ gate_call' = Call("initialize_from_matches", <<>>, 0, ~initialized, "",
                               IF initialized THEN "none"
                               ELSE ListingOutcome(backend_ok, list_ok))
          /\ ok_index' = IF scanned_now /\ list_ok THEN r.index ELSE ok_index
          /\ recover_streak' = IF initialized THEN 0 ELSE 1
    /\ UNCHANGED <<validation_files, last_accept_index>>
    /\ UNCHANGED <<batch_vars, aggregate_vars>>

\* get_company_tickers_from_matched_file: read_ok is whether
\* matched_companies.json could be read and parsed.
GetCompanyTickersFromMatchedFile(read_ok, matches) ==
    /\ (~read_ok => matches = <<>>)
    /\ IF read_ok
       THEN /\ companies_to_validate' = matches
            /\ initialized' = TRUE
       ELSE UNCHANGED <<companies_to_validate, initialized>>
    /\ gate_call' = Call("get_company_tickers", <<>>, 0, read_ok, "", "none")
    /\ recover_streak' = 0
    /\ UNCHANGED <<current_index, last_queried_company, validation_files,
                   last_accept_index, ok_index>>
    /\ UNCHANGED <<batch_vars, aggregate_vars>>

\* The agent's write_file('validations/company_<ticker>.json', ...): the
\* put may fail, and after_tool runs when the write went through the
\* observed tool path (signal).
WriteValidationFile(ticker, write_ok, signal) ==
    /\ LET path == ValidationPath(ticker)
           m == IF signal THEN AfterTool(current_index, last_queried_company, path)
                ELSE [index |-> current_index, pending |-> last_queried_company]
       IN /\ validation_files' = S3Write(validation_files, path, write_ok)
          /\ current_index' = m.index
          /\ last_queried_company' = m.pending
    /\ gate_call' = Call("write_file", ticker, 0, write_ok, "",
                         IF signal THEN "signal" ELSE "none")
    /\ recover_streak' = 0
    /\ UNCHANGED <<companies_to_validate, initialized, last_accept_index, ok_index>>
    /\ UNCHANGED <<batch_vars, aggregate_vars>>

\* A direct call of recover_from_s3 on an initialized gate.
RecoverCall(backend_ok, list_ok) ==
    /\ initialized
    /\ (~backend_ok => list_ok)
    /\ LET r == CompanyRecoverFromS3(companies_to_validate, current_index,
                    last_queried_company, backend_ok,
                    GlobInfo(validation_files, list_ok))
       IN /\ current_index' = r.index
          /\ last_queried_company' = r.pending
          /\ ok_index' = IF backend_ok /\ list_ok THEN r.index ELSE ok_index
    /\ gate_call' = Call("recover_from_s3", <<>>, 0, backend_ok, "",
                         ListingOutcome(backend_ok, list_ok))
    /\ recover_streak' = Min(recover_streak + 1, 2)
    /\ UNCHANGED <<companies_to_validate, initialized, validation_files,
                   last_accept_index>>
    /\ UNCHANGED <<batch_vars, aggregate_vars>>

\* The process dies and a new one starts: _company_state is rebuilt, S3
\* keeps its objects.
GateRestart ==
    /\ initialized
    /\ companies_to_validate' = <<>>
    /\ current_index' = 0
    /\ last_queried_company' = NoCompany
    /\ initialized' = FALSE
    /\ gate_call' = NoCall
    /\ last_accept_index' = NoIndex
    /\ ok_index' = NoIndex
    /\ recover_streak' = 0
    /\ UNCHANGED validation_files
    /\ UNCHANGED aggregate_vars

\* A restart at any time, as often as the environment likes.
GateCrash == GateRestart /\ UNCHANGED batch_vars

\* The batch cursor at rest, for the specifications of the record gate.
BatchIdle ==
    /\ expected_offset = 0
    /\ completed = FALSE
    /\ recovered = FALSE
    /\ batch_files = {}
    /\ total_count = 0
    /\ invalid_rows = {}
    /\ response = NoResponse
    /\ accepted = <<>>
    /\ fetched = {}
    /\ scanned = {}
    /\ scan_ok = FALSE
    /\ recovered_at = NoOffset
    /\ interrupted = NoOffset
    /\ fresh_run = TRUE
    /\ restarts_left = MaxRestarts

InitGate ==
    /\ BatchIdle
    /\ GateInit
    /\ validation_files = {}
    /\ AggregateInit

NextGate ==
    \/ \E symbols \in SymbolInputs, skip \in Skips, backend_ok \in BOOLEAN,
          db_ok \in BOOLEAN :
          GetPressReleasesFromMongodb(symbols, skip, backend_ok, db_ok)
    \/ \E matches \in Worklists, backend_ok \in BOOLEAN, list_ok \in BOOLEAN :
          InitializeFromMatchesCall(matches, backend_ok, list_ok)
    \/ \E read_ok \in BOOLEAN, matches \in Worklists :
          GetCompanyTickersFromMatchedFile(read_ok, matches)
    \/ \E ticker \in Tickers, write_ok \in BOOLEAN, signal \in BOOLEAN :
          WriteValidationFile(ticker, write_ok, signal)
    \/ GateCrash

SpecGate == InitGate /\ [][NextGate]_vars

NextReconcile ==
    \/ NextGate
    \/ \E backend_ok \in BOOLEAN, list_ok \in BOOLEAN : RecoverCall(backend_ok, list_ok)

SpecReconcile == InitGate /\ [][NextReconcile]_vars

\* The record gate under the validating agent of the pipeline: it loads the
\* worklist once, then takes the tickers in list order, one query with
\* skip = 0 per ticker, and writes the ticker's validation artifact before
\* it goes on.  Storage and database are reliable; the write may or may not
\* be seen by after_tool.  The run namespace may hold validation artifacts
\* of an earlier process.
InitGateDriver ==
    /\ BatchIdle
    /\ GateInit
    /\ validation_files \in SUBSET {ValidationPath(t) : t \in Tickers}
    /\ AggregateInit

\* The agent was given press releases and has not stored its validation.
ValidationDue == gate_call.op = "query" /\ gate_call.ok

\* Position of the ticker the gate accepts next: the pending one is
\* written, so the gate moves past it when the next call arrives.
ExpectedIndex ==
    IF last_queried_company = NoCompany THEN current_index ELSE current_index + 1

GateDriverInitialize ==
    /\ ~initialized
    /\ \E matches \in Worklists : GetCompanyTickersFromMatchedFile(TRUE, matches)

GateDriverQuery ==
    /\ initialized
    /\ ~ValidationDue
    /\ ExpectedIndex < Len(companies_to_validate)
    /\ GetPressReleasesFromMongodb(companies_to_validate[ExpectedIndex + 1], 0,
                                   TRUE, TRUE)

GateDriverWrite ==
    /\ ValidationDue
    /\ \E signal \in BOOLEAN :
          WriteValidationFile(gate_call.symbols, TRUE, signal)

\* The process dies and restarts, MaxRestarts times at most.
GateDriverRestart ==
    /\ restarts_left > 0
    /\ GateRestart
    /\ restarts_left' = restarts_left - 1
    /\ UNCHANGED <<cursor, batch_files, source, response, accepted, fetched,
                   scanned, scan_ok, recovered_at, interrupted, fresh_run>>

NextGateDriver ==
    \/ GateDriverInitialize
    \/ GateDriverQuery
    \/ GateDriverWrite
    \/ GateDriverRestart

\* The agent loop keeps calling its tools, so a step that stays possible is
\* eventually taken.
SpecGateDriver ==
    /\ InitGateDriver
    /\ [][NextGateDriver]_vars
    /\ WF_vars(GateDriverInitialize)
    /\ WF_vars(GateDriverQuery)
    /\ WF_vars(GateDriverWrite)

(***************************************************************************)
(* Properties of the record gate                                           *)
(***************************************************************************)
\* The step is a get_press_releases_from_mongodb call.
QueryStep == gate_call'.op = "query"

\* The pending company's validation artifact is not in storage.
PendingAbsent ==
    /\ last_queried_company # NoCompany
    /\ ValidationPath(last_queried_company) \notin validation_files

\* The call names exactly one symbol.
SingleSymbol == Len(SymbolList(gate_call'.symbols)) = 1

\* C11: while a company is pending and its validation artifact is absent
\* from storage, every validate_and_update call (for one symbol, the case
\* the earlier checks let through) is rejected with the must-write-first
\* error and leaves current_index unchanged.
C11_WriteBeforeAdvance ==
    [][(QueryStep /\ SingleSymbol /\ PendingAbsent) =>
          /\ ~gate_call'.ok
          /\ gate_call'.error = MustWriteFirst
          /\ current_index' = current_index]_vars

\* A company was accepted although no validation artifact was ever stored.
C11_AdvancedWithoutArtifact ==
    /\ validation_files = {}
    /\ current_index = 1
    /\ last_queried_company = <<"B">>
    /\ gate_call.op = "query" /\ gate_call.listing = "none"

\* The step is a confirmation: a query (lazy check) or a write_file call
\* (explicit signal) that moves current_index forward.
ConfirmationStep ==
    /\ gate_call'.op \in {"query", "write_file"}
    /\ current_index' > current_index

\* C12: every step that increases current_index, by the explicit signal of
\* after_tool or by the lazy check of validate_and_update, is taken when the
\* validation artifact of companies_to_validate[current_index] is in storage.
C12_AdvanceOnlyWithArtifact ==
    [][ConfirmationStep =>
          /\ current_index < Len(companies_to_validate)
          /\ ValidationPath(companies_to_validate[current_index + 1]) \in validation_files']_vars

\* The step is an accepted get_press_releases_from_mongodb call.
AcceptStep == QueryStep /\ gate_call'.ok

\* C13: every accepted query names companies_to_validate[current_index] as
\* it is at the moment of acceptance, and the positions a process accepts
\* follow the worklist without a gap: each is the position of the previous
\* acceptance or the one after it.
C13_AcceptedInWorklistOrder ==
    [][AcceptStep =>
          /\ current_index' < Len(companies_to_validate)
          /\ SymbolList(gate_call'.symbols) = <<companies_to_validate[current_index' + 1]>>
          /\ last_queried_company' = companies_to_validate[current_index' + 1]
          /\ last_accept_index # NoIndex =>
                current_index' \in {last_accept_index, last_accept_index + 1}]_vars

\* The second company of [A, B] was accepted after the first, whose
\* artifact is in storage.
C13_Witness ==
    /\ companies_to_validate = << <<"A">>, <<"B">> >>
    /\ ValidationPath(<<"A">>) \in validation_files
    /\ gate_call.op = "query" /\ gate_call.ok
    /\ gate_call.symbols = <<"B">>
    /\ last_accept_index = 1
    /\ last_queried_company = <<"B">>

InitOps == {"initialize_from_matches", "get_company_tickers"}

\* C14: once the gate is initialized, a further initialization through
\* initialize_from_matches or get_company_tickers_from_matched_file, with the
\* same or another aggregate, leaves companies_to_validate, current_index and
\* last_queried_company unchanged.
C14_InitializationOneShot ==
    [][(initialized /\ gate_call'.op \in InitOps) =>
          UNCHANGED <<companies_to_validate, current_index, last_queried_company>>]_vars

\* k is the position of the first entry of worklist without a validation
\* artifact in files, or Len(worklist) when every entry has one.
IsFirstMissing(worklist, files, k) ==
    /\ k \in 0..Len(worklist)
    /\ \A j \in 1..k : ValidationPath(worklist[j]) \in files
    /\ k < Len(worklist) => ValidationPath(worklist[k + 1]) \notin files

\* The step initializes the gate of a new process.
InitializationStep ==
    /\ ~initialized /\ initialized'
    /\ gate_call'.op \in InitOps

\* C15: when a new process initializes the gate, through either path, and
\* validation artifacts exist for the first k entries of the worklist, the
\* initialization reconciles with storage and leaves current_index = k.
C15_InitializationResumes ==
    [][InitializationStep =>
          IsFirstMissing(companies_to_validate', validation_files, current_index')]_vars

\* A new process initialized by get_company_tickers_from_matched_file asks
\* for A again although A's artifact is in storage.
C15_ToolInitRestartsAtZero ==
    /\ companies_to_validate = << <<"A">>, <<"B">> >>
    /\ ValidationPath(<<"A">>) \in validation_files
    /\ ok_index = NoIndex
    /\ gate_call.op = "query" /\ gate_call.ok /\ gate_call.symbols = <<"A">>
    /\ current_index = 0

\* The operations that run recover_from_s3.
RecoverOps == {"recover_from_s3", "initialize_from_matches"}

\* The step ran recover_from_s3 and its listing succeeded.
RecoveredStep ==
    /\ gate_call'.op \in RecoverOps
    /\ gate_call'.listing = "ok"

\* C16: after recover_from_s3 with a successful listing, current_index is
\* the position of the first worklist entry without a validation artifact,
\* or the length of the worklist when every entry has one, and no company is
\* pending; for every worklist, repeated tickers included, and every store.
C16_RecoverToFirstMissing ==
    [][RecoveredStep =>
          /\ IsFirstMissing(companies_to_validate', validation_files', current_index')
          /\ last_queried_company' = NoCompany]_vars

\* A direct recover_from_s3 call skipped A, whose artifact is stored, and
\* stopped at B.
C16_Witness ==
    /\ companies_to_validate = << <<"A">>, <<"B">> >>
    /\ validation_files = {ValidationPath(<<"A">>)}
    /\ gate_call.op = "recover_from_s3" /\ gate_call.listing = "ok"
    /\ current_index = 1
    /\ last_queried_company = NoCompany

\* The step is a recover_from_s3 call that directly follows another run of
\* recover_from_s3: nothing was written, or called, in between.
ConsecutiveRecovers ==
    /\ gate_call'.op = "recover_from_s3"
    /\ recover_streak' = 2

C18_RecoverMonotonic ==
    [][(gate_call'.op = "recover_from_s3" /\ ok_index # NoIndex) =>
          current_index' >= ok_index]_vars

\* The step is a write_file call observed by after_tool.
SignalStep ==
    /\ gate_call'.op = "write_file"
    /\ gate_call'.listing = "signal"

\* C19: mark_file_written for a company that is not pending changes
\* nothing, and each accepted query moves current_index by one in total:
\* the cursor stands at the accepted position while the company is pending
\* and one past it afterwards, however often the signal and the lazy check
\* run.
C19_NoDoubleAdvance ==
    [][/\ (SignalStep /\ gate_call'.symbols # last_queried_company) =>
             UNCHANGED <<current_index, last_queried_company>>
       /\ last_accept_index' # NoIndex =>
             current_index' = last_accept_index' +
                 (IF last_queried_company' = NoCompany THEN 1 ELSE 0)]_vars

\* B is pending at position 1 and a signal for A, confirmed earlier, has
\* just arrived.
C19_Witness ==
    /\ companies_to_validate = << <<"A">>, <<"B">> >>
    /\ last_accept_index = 1
    /\ last_queried_company = <<"B">>
    /\ current_index = 1
    /\ gate_call.op = "write_file" /\ gate_call.listing = "signal"
    /\ gate_call.symbols = <<"A">>

\* The rejection the claimed order of checks gives a call, "" for none:
\* not initialized, not one symbol, pending artifact absent, worklist
\* exhausted, out of order, non-zero skip.  A pending company whose artifact
\* is stored is confirmed before the later checks.
FirstViolation(symbols, skip) ==
    LET symbol_list == SymbolList(symbols)
        idx == IF last_queried_company # NoCompany
               THEN current_index + 1 ELSE current_index
    IN IF ~initialized THEN NotInitialized
       ELSE IF Len(symbol_list) # 1 THEN OneAtATime
       ELSE IF PendingAbsent THEN MustWriteFirst
       ELSE IF idx >= Len(companies_to_validate) THEN AllValidated
       ELSE IF symbol_list[1] # companies_to_validate[idx + 1] THEN WrongOrder
       ELSE IF skip # 0 THEN PaginationViolation
       ELSE ""

\* C20: validate_and_update applies its checks in the order not
\* initialized, not one symbol, pending artifact absent, worklist exhausted,
\* out of order, non-zero skip, and a call that fails several of them is
\* answered with the earliest (calls whose storage check itself errors
\* aside).
C20_EarliestViolationWins ==
    [][(QueryStep /\ gate_call'.listing # "raised") =>
          gate_call'.error = FirstViolation(gate_call'.symbols, gate_call'.skip)]_vars

\* A call that violates the third check is answered by a later one.
C20_LaterCheckAnswers ==
    /\ companies_to_validate = << <<"A">>, <<"B">> >>
    /\ validation_files = {}
    /\ gate_call.op = "query" /\ gate_call.symbols = <<"A">>
    /\ gate_call.skip = PressReleaseBatchSize
    /\ gate_call.error = WrongOrder
    /\ current_index = 1

\* The step is a call for the company after the pending one, with skip 0,
\* made while the pending company companies_to_validate[current_index] has
\* its artifact in storage and no signal has cleared it.
NextAfterWrittenPending ==
    /\ QueryStep
    /\ last_queried_company # NoCompany
    /\ current_index + 1 < Len(companies_to_validate)
    /\ last_queried_company = companies_to_validate[current_index + 1]
    /\ ValidationPath(last_queried_company) \in validation_files
    /\ SymbolList(gate_call'.symbols) = <<companies_to_validate[current_index + 2]>>
    /\ gate_call'.skip = 0

\* The call confirmed the pending company and was accepted.
LazilyAdvanced ==
    /\ gate_call'.ok
    /\ current_index' = current_index + 1
    /\ last_queried_company' = companies_to_validate[current_index + 2]

TopCompanyMatches == 4

\* One entry of the 'matches' list of a batch artifact.  complete says that
\* the keys CompanyMatch is built from (ticker, company_name, score) are there.
MatchRecord(ticker, score, theme, complete) ==
    [ticker |-> ticker, score |-> score, matched_themes |-> <<theme>>,
     complete |-> complete]

\* What json.loads gives for company_matches/batch_<offset_str>.json.  The
\* artifact at HalfBatch overlaps the first one and repeats its ticker B; the
\* one at -100 holds a low-scoring entry without company_name; the one named
\* x is not JSON.
BatchContent(offset_str) ==
    CASE offset_str = ZeroPad4(0) ->
            [parsed |-> TRUE,
             matches |-> << MatchRecord(<<"A">>, 90, "T1", TRUE),
                            MatchRecord(<<"B">>, 50, "T1", TRUE),
                            MatchRecord(<<"C">>, 30, "T2", TRUE) >>]
      [] offset_str = ZeroPad4(BatchSize) ->
            [parsed |-> TRUE,
             matches |-> << MatchRecord(<<"D">>, 95, "T2", TRUE),
                            MatchRecord(<<"E">>, 40, "T1", TRUE) >>]
      [] offset_str = ZeroPad4(2 * BatchSize) ->
            [parsed |-> TRUE,
             matches |-> << MatchRecord(<<"H">>, 40, "T2", TRUE) >>]
      [] offset_str = ZeroPad4(HalfBatch) ->
            [parsed |-> TRUE,
             matches |-> << MatchRecord(<<"B">>, 50, "T1", TRUE) >>]
      [] offset_str = <<"-", "1", "0", "0">> ->
            [parsed |-> TRUE,
             matches |-> << MatchRecord(<<"G">>, 10, "T1", FALSE) >>]
      [] OTHER -> [parsed |-> FALSE, matches |-> <<>>]

\* The batch stores the consolidation is run on.
AggregateStores ==
    { {},
      {ZeroPad4(0)},
      {ZeroPad4(0), ZeroPad4(BatchSize)},
      {ZeroPad4(0), ZeroPad4(BatchSize), ZeroPad4(2 * BatchSize)},
      {ZeroPad4(BatchSize), ZeroPad4(2 * BatchSize)},
      {ZeroPad4(0), ZeroPad4(HalfBatch)},
      {ZeroPad4(0), <<"x">>},
      {ZeroPad4(0), ZeroPad4(BatchSize), <<"-", "1", "0", "0">>},
      {<<"-", "1", "0", "0">>} }

\* Every order in which list_objects_v2 may hand back the objects of a set.
ListingOrders(objects) ==
    {order \in [1..Cardinality(objects) -> objects] :
        \A i, j \in 1..Cardinality(objects) : i # j => order[i] # order[j]}

\* all_matches after the loop over the listed artifacts: extend, in listing order.
RECURSIVE ExtendAll(_)
ExtendAll(listing) ==
    IF listing = <<>> THEN <<>>
    ELSE BatchContent(Head(listing)).matches \o ExtendAll(Tail(listing))

\* list.sort(key=..., reverse=True) is stable: a record goes behind every
\* record already placed whose key is not lower.
RECURSIVE InsertDescending(_, _, _)
InsertDescending(sorted, keys, x) ==
    IF sorted = <<>> THEN <<x>>
    ELSE IF keys[Head(sorted)] >= keys[x]
         THEN <<Head(sorted)>> \o InsertDescending(Tail(sorted), keys, x)
         ELSE <<x>> \o sorted

\* The positions of keys in the order the stable descending sort leaves them.
RECURSIVE SortDescending(_, _)
SortDescending(keys, n) ==
    IF n = 0 THEN <<>>
    ELSE InsertDescending(SortDescending(keys, n - 1), keys, n)

\* No sorting at all: the records stay in encounter order (it differs from
\* the code below).
SortByScoreEncounterOrder(records) == records

SortByScore(records) ==
    LET order == SortDescending([i \in DOMAIN records |-> records[i].score], Len(records))
    IN  [k \in DOMAIN records |-> records[order[k]]]

\* seq[:n]
Take(seq, n) == SubSeq(seq, 1, Min(n, Len(seq)))

\* CompanyMatch(..., rank=i, ...) for enumerate(top_matches_dicts, start=1)
RankMatches(top) ==
    [i \in DOMAIN top |->
        [ticker |-> top[i].ticker, rank |-> i, score |-> top[i].score,
         matched_themes |-> top[i].matched_themes]]

ThemeCounts(top) ==
    LET themes == UNION {{top[i].matched_themes[k] : k \in DOMAIN top[i].matched_themes} : i \in DOMAIN top}
    IN  [t \in themes |->
            Cardinality(UNION {{<<i, k>> : k \in {k \in DOMAIN top[i].matched_themes :
                                                    top[i].matched_themes[k] = t}} :
                               i \in DOMAIN top})]

ScoreRanges(top) ==
    [r \in {"0.95-1.00", "0.90-0.94", "0.85-0.89", "0.80-0.84"} |->
        Cardinality({i \in DOMAIN top :
            CASE r = "0.95-1.00" -> top[i].score >= 95
              [] r = "0.90-0.94" -> 90 <= top[i].score /\ top[i].score < 95
              [] r = "0.85-0.89" -> 85 <= top[i].score /\ top[i].score < 90
              [] OTHER -> 80 <= top[i].score /\ top[i].score < 85})]

RECURSIVE SumScores(_)
SumScores(top) == IF top = <<>> THEN 0 ELSE Head(top).score + SumScores(Tail(top))

\* round(sum / len, 2), in hundredths, halves rounded up.
AverageScore(top) ==
    IF top = <<>> THEN 0 ELSE (2 * SumScores(top) + Len(top)) \div (2 * Len(top))

\* A consolidation that writes an aggregate of whatever it lists, an empty
\* one when nothing is listed (it differs from the code below).
ConsolidateBatchWritesEmpty(listing, reads_ok) ==
    [status |-> "success", error |-> "",
     doc |-> [kind |-> "matches", matches |-> <<>>, theme_distribution |-> << >>,
              score_ranges |-> ScoreRanges(<<>>), average_score |-> 0,
              total_companies_analyzed |-> 0,
              total_batches_processed |-> Len(listing)]]

\* A consolidation that passes over what it cannot read or parse and
\* aggregates the rest (it differs from the code below).
ConsolidateBatchSkipsUnparsed(listing, reads_ok) ==
    IF listing = <<>>
    THEN [status |-> "error", error |-> "No batch files found", doc |-> NoDoc]
    ELSE LET all_matches == ExtendAll(listing)
             top == Take(SortByScore(all_matches), TopCompanyMatches)
         IN  IF \E i \in DOMAIN top : ~top[i].complete
             THEN [status |-> "error", error |-> "Consolidation failed", doc |-> NoDoc]
             ELSE [status |-> "success", error |-> "",
                   doc |-> [kind |-> "matches",
                            matches |-> RankMatches(top),
                            theme_distribution |-> ThemeCounts(top),
                            score_ranges |-> ScoreRanges(top),
                            average_score |-> AverageScore(top),
                            total_companies_analyzed |-> Len(all_matches),
                            total_batches_processed |-> Len(listing)]]

\* The body of consolidate_batch_files for a listing and the outcome of its
\* reads: the result it returns and the document it hands to write.
ConsolidateBatch(listing, reads_ok) ==
    IF listing = <<>>
    THEN [status |-> "error", error |-> "No batch files found", doc |-> NoDoc]
    ELSE IF ~reads_ok \/ \E i \in DOMAIN listing : ~BatchContent(listing[i]).parsed
    THEN [status |-> "error", error |-> "Consolidation failed", doc |-> NoDoc]
    ELSE LET all_matches == ExtendAll(listing)
             top == Take(SortByScore(all_matches), TopCompanyMatches)
         IN  IF \E i \in DOMAIN top : ~top[i].complete
             THEN [status |-> "error", error |-> "Consolidation failed", doc |-> NoDoc]
             ELSE [status |-> "success", error |-> "",
                   doc |-> [kind |-> "matches",
                            matches |-> RankMatches(top),
                            theme_distribution |-> ThemeCounts(top),
                            score_ranges |-> ScoreRanges(top),
                            average_score |-> AverageScore(top),
                            total_companies_analyzed |-> Len(all_matches),
                            total_batches_processed |-> Len(listing)]]

\* What a tool call leaves behind.  The three tools run inside
\* 'try: ... except Exception', so no exception leaves them.
ToolCall(op, result, listing, reads_ok, write_ok) ==
    [op |-> op, status |-> result.status, error |-> result.error,
     listing |-> listing, reads_ok |-> reads_ok, validations_ok |-> TRUE,
     put |-> result.status = "success" /\ write_ok, raised |-> FALSE]

\* One consolidate_batch_files call.  order is the order of the listing,
\* list_ok whether glob_info's listing succeeded, reads_ok whether every read
\* returned the object, write_ok whether the put_object succeeded.
ConsolidateBatchFiles(order, list_ok, reads_ok, write_ok) ==
    /\ order \in ListingOrders(GlobInfo(batch_files, list_ok))
    /\ (order = <<>> => reads_ok)
    /\ LET result == ConsolidateBatch(order, reads_ok)
       IN  /\ (result.status # "success" => write_ok)
           /\ matched_companies' =
                 IF result.status = "success" /\ write_ok THEN result.doc
                 ELSE matched_companies
           /\ tool_call' = ToolCall("consolidate_batch_files", result, order, reads_ok, write_ok)
    /\ UNCHANGED <<validated_results, final_rankings>>
    /\ UNCHANGED <<batch_vars, gate_vars>>

\* An optional score: None, or a value.
NullScore == [null |-> TRUE, value |-> 0]
SomeScore(value) == [null |-> FALSE, value |-> value]

\* What json.loads gives for validations/company_<ticker>.json.  A's
\* validation adjusts the score to 0, B's to 0.95, C's leaves adjusted_score
\* null, D's lacks fields CompanyValidation requires, and any other artifact
\* is not JSON.
ValidationContent(ticker) ==
    CASE ticker = <<"A">> ->
            [parsed |-> TRUE, convertible |-> TRUE, ticker |-> ticker,
             adjusted_score |-> SomeScore(0), validation_status |-> "REJECTED"]
      [] ticker = <<"B">> ->
            [parsed |-> TRUE, convertible |-> TRUE, ticker |-> ticker,
             adjusted_score |-> SomeScore(95), validation_status |-> "VALIDATED"]
      [] ticker = <<"C">> ->
            [parsed |-> TRUE, convertible |-> TRUE, ticker |-> ticker,
             adjusted_score |-> NullScore, validation_status |-> "VALIDATED"]
      [] ticker = <<"D">> ->
            [parsed |-> TRUE, convertible |-> FALSE, ticker |-> ticker,
             adjusted_score |-> NullScore, validation_status |-> "VALIDATED"]
      [] OTHER ->
            [parsed |-> FALSE, convertible |-> FALSE, ticker |-> ticker,
             adjusted_score |-> NullScore, validation_status |-> "null"]

\* The validation stores the consolidation is run on.
ValidationStores ==
    { {},
      {ValidationPath(<<"A">>)},
      {ValidationPath(<<"A">>), ValidationPath(<<"B">>)},
      {ValidationPath(<<"B">>), ValidationPath(<<"C">>)},
      {ValidationPath(<<"A">>), ValidationPath(<<"D">>)},
      {ValidationPath(<<"A">>), ValidationPath(<<"X">>)} }

\* The body of consolidate_validation_files for a listing of artifact paths.
ConsolidateValidations(listing, reads_ok) ==
    IF listing = <<>>
    THEN [status |-> "error", error |-> "No validation files found", doc |-> NoDoc]
    ELSE LET all_validations == [i \in DOMAIN listing |-> ValidationContent(TickerOfPath(listing[i]))]
         IN  IF \/ ~reads_ok
                \/ \E i \in DOMAIN listing : ~all_validations[i].parsed
                \/ \E i \in DOMAIN listing : ~all_validations[i].convertible
             THEN [status |-> "error", error |-> "Consolidation failed", doc |-> NoDoc]
             ELSE [status |-> "success", error |-> "",
                   doc |-> [kind |-> "validations",
                            total_validations |-> Len(all_validations),
                            validations |->
                                [i \in DOMAIN listing |->
                                    [ticker |-> all_validations[i].ticker,
                                     adjusted_score |-> all_validations[i].adjusted_score,
                                     validation_status |-> all_validations[i].validation_status]],
                            files_processed |-> Len(listing)]]

\* One consolidate_validation_files call.
ConsolidateValidationFiles(order, list_ok, reads_ok, write_ok) ==
    /\ order \in ListingOrders(GlobInfo(validation_files, list_ok))
    /\ (order = <<>> => reads_ok)
    /\ LET result == ConsolidateValidations(order, reads_ok)
       IN  /\ (result.status # "success" => write_ok)
           /\ validated_results' =
                 IF result.status = "success" /\ write_ok THEN result.doc
                 ELSE validated_results
           /\ tool_call' = ToolCall("consolidate_validation_files", result, order, reads_ok, write_ok)
    /\ UNCHANGED <<matched_companies, final_rankings>>
    /\ UNCHANGED <<batch_vars, gate_vars>>

\* The validations of the stored aggregate, whether or not it could be
\* read (it differs from the code below).
ValidationsIgnoringReadFailure(validated, read_ok) ==
    IF validated.kind = "validations"
    THEN LET vs == validated.validations
         IN  [t \in {vs[i].ticker : i \in DOMAIN vs} |->
                 vs[CHOOSE i \in DOMAIN vs : vs[i].ticker = t]]
    ELSE << >>

\* validations = {v['ticker']: v for v in ...}: the last entry of a ticker
\* wins; {} when validated_results.json cannot be read or parsed.
ValidationsByTicker(validated, read_ok) ==
    IF read_ok /\ validated.kind = "validations"
    THEN LET vs == validated.validations
         IN  [t \in {vs[i].ticker : i \in DOMAIN vs} |->
                 vs[CHOOSE i \in DOMAIN vs :
                       /\ vs[i].ticker = t
                       /\ \A j \in DOMAIN vs : vs[j].ticker = t => j <= i]]
    ELSE << >>

\* validation.get('adjusted_score') or company['score']: Python's 'or'
\* takes the right operand when the left one is None or 0.
FinalScore(validations, company) ==
    IF /\ company.ticker \in DOMAIN validations
       /\ ~validations[company.ticker].adjusted_score.null
       /\ validations[company.ticker].adjusted_score.value # 0
    THEN validations[company.ticker].adjusted_score.value
    ELSE company.score

\* The FinalCompanyRanking built for one entry of matched_companies.json.
MergedCompany(validations, company) ==
    [ticker |-> company.ticker,
     rank |-> 0,
     final_score |-> FinalScore(validations, company),
     matched_themes |-> company.matched_themes,
     validation_status |->
        IF company.ticker \in DOMAIN validations
        THEN validations[company.ticker].validation_status
        ELSE "null"]

\* No re-ranking: the merged records stay in the order of the matches
\* aggregate (it differs from the code below).
SortByFinalScoreAggregateOrder(records) == records

SortByFinalScore(records) ==
    LET order == SortDescending([i \in DOMAIN records |-> records[i].final_score], Len(records))
    IN  [k \in DOMAIN records |-> records[order[k]]]

\* The body of merge_and_rank_companies for the two aggregates as read.
MergeAndRank(matched, validated, matches_read_ok, validations_read_ok) ==
    IF ~matches_read_ok \/ matched.kind # "matches"
    THEN [status |-> "error", error |-> "Merge failed", doc |-> NoDoc]
    ELSE LET validations == ValidationsByTicker(validated, validations_read_ok)
             merged == [i \in DOMAIN matched.matches |->
                           MergedCompany(validations, matched.matches[i])]
             top_companies == Take(SortByFinalScore(merged), TopCompanyMatches)
         IN  [status |-> "success", error |-> "",
              doc |-> [kind |-> "final",
                       companies |-> [i \in DOMAIN top_companies |->
                                         [top_companies[i] EXCEPT !.rank = i]],
                       total_companies_analyzed |-> matched.total_companies_analyzed,
                       total_companies_validated |-> Cardinality(DOMAIN validations)]]

\* One merge_and_rank_companies call.
MergeAndRankCompanies(matches_read_ok, validations_read_ok, write_ok) ==
    /\ (matched_companies = NoDoc => matches_read_ok)
    /\ (validated_results = NoDoc => validations_read_ok)
    /\ LET result == MergeAndRank(matched_companies, validated_results,
                                  matches_read_ok, validations_read_ok)
       IN  /\ (result.status # "success" => write_ok /\ validations_read_ok)
           /\ final_rankings' =
                 IF result.status = "success" /\ write_ok THEN result.doc
                 ELSE final_rankings
           /\ tool_call' =
                 [ToolCall("merge_and_rank_companies", result, <<>>, matches_read_ok, write_ok)
                     EXCEPT !.validations_ok = validations_read_ok]
    /\ UNCHANGED <<matched_companies, validated_results>>
    /\ UNCHANGED <<batch_vars, gate_vars>>

\* A matches aggregate left by a run whose TOP_COMPANY_MATCHES was larger:
\* every record of three batches, ranked.
LongerMatches ==
    LET all_matches == ExtendAll(<<ZeroPad4(0), ZeroPad4(BatchSize), ZeroPad4(2 * BatchSize)>>)
        top == SortByScore(all_matches)
    IN  [kind |-> "matches",
         matches |-> RankMatches(top),
         theme_distribution |-> ThemeCounts(top),
         score_ranges |-> ScoreRanges(top),
         average_score |-> AverageScore(top),
         total_companies_analyzed |-> Len(all_matches),
         total_batches_processed |-> 3]

\* The stores the consolidation stage starts on: every batch store beside
\* two validation artifacts, every validation store beside two batch
\* artifacts, and every validation store beside the longer aggregate.
AggregateRuns ==
    {[batch |-> b, validations |-> {ValidationPath(<<"A">>), ValidationPath(<<"B">>)},
      matched |-> NoDoc] : b \in AggregateStores}
    \cup
    {[batch |-> {ZeroPad4(0), ZeroPad4(BatchSize)}, validations |-> v,
      matched |-> NoDoc] : v \in ValidationStores}
    \cup
    {[batch |-> {}, validations |-> v, matched |-> LongerMatches] : v \in ValidationStores}

\* The consolidation stage starts on the artifacts the two gated stages left.
InitAggregate ==
    /\ expected_offset = 0
    /\ completed = FALSE
    /\ recovered = FALSE
    /\ \E run \in AggregateRuns :
          /\ batch_files = run.batch
          /\ validation_files = run.validations
          /\ matched_companies = run.matched
    /\ total_count = 0
    /\ invalid_rows = {}
    /\ response = NoResponse
    /\ accepted = <<>>
    /\ fetched = {}
    /\ scanned = {}
    /\ scan_ok = FALSE
    /\ recovered_at = NoOffset
    /\ interrupted = NoOffset
    /\ fresh_run = (batch_files = {})
    /\ restarts_left = MaxRestarts
    /\ GateInit
    /\ validated_results = NoDoc
    /\ final_rankings = NoDoc
    /\ tool_call = NoToolCall

NextAggregate ==
    \/ \E list_ok \in BOOLEAN, reads_ok \in BOOLEAN, write_ok \in BOOLEAN :
          \E order \in ListingOrders(GlobInfo(batch_files, list_ok)) :
             ConsolidateBatchFiles(order, list_ok, reads_ok, write_ok)
    \/ \E list_ok \in BOOLEAN, reads_ok \in BOOLEAN, write_ok \in BOOLEAN :
          \E order \in ListingOrders(GlobInfo(validation_files, list_ok)) :
             ConsolidateValidationFiles(order, list_ok, reads_ok, write_ok)
    \/ \E matches_read_ok \in BOOLEAN, validations_read_ok \in BOOLEAN, write_ok \in BOOLEAN :
          MergeAndRankCompanies(matches_read_ok, validations_read_ok, write_ok)

SpecAggregate == InitAggregate /\ [][NextAggregate]_vars

(***************************************************************************)
(* Properties of the consolidation and merge tools                         *)
(***************************************************************************)
Consolidators == {"consolidate_batch_files", "consolidate_validation_files"}

\* A consolidation tool ran and glob_info gave it no artifact.
NothingListedStep ==
    /\ tool_call'.op \in Consolidators
    /\ tool_call'.listing = <<>>

\* C22: when no artifact matches the glob, consolidate_batch_files and
\* consolidate_validation_files return a structured error result without
\* raising and write no aggregate: matched_companies.json and
\* validated_results.json stay as they were.
C22_NothingListedNothingWritten ==
    [][NothingListedStep =>
          /\ tool_call'.status = "error"
          /\ tool_call'.error \in {"No batch files found", "No validation files found"}
          /\ ~tool_call'.raised
          /\ ~tool_call'.put
          /\ UNCHANGED <<matched_companies, validated_results, final_rankings>>]_vars

\* C22 (witness): consolidate_batch_files found no batch artifact, returned
\* the error and the aggregate stored before is still there.
C22_Witness ==
    /\ tool_call.op = "consolidate_batch_files"
    /\ tool_call.listing = <<>>
    /\ tool_call.status = "error"
    /\ batch_files = {}
    /\ matched_companies = LongerMatches

\* consolidate_batch_files returned success and its document was stored.
BatchConsolidatedStep ==
    /\ tool_call'.op = "consolidate_batch_files"
    /\ tool_call'.status = "success"
    /\ tool_call'.put

\* The entries of every listed artifact, in encounter order.
Encountered(listing) ==
    LET Entries(k) == BatchContent(listing[k]).matches
        RECURSIVE Upto(_)
        Upto(k) == IF k = 0 THEN <<>> ELSE Upto(k - 1) \o Entries(k)
    IN  Upto(Len(listing))

\* How many entries of the merged list come before entry k when scores are
\* non-increasing and equal scores stay in encounter order: those with a
\* higher score and those with the same score met earlier.
Ahead(merged, k) ==
    Cardinality({j \in DOMAIN merged :
                    \/ merged[j].score > merged[k].score
                    \/ merged[j].score = merged[k].score /\ j < k})

\* output is the stable descending top-n selection of merged: it has
\* min(n, Len(merged)) entries and its entry at position i is the entry of
\* merged that exactly i - 1 entries come before, so scores are
\* non-increasing, equal scores keep encounter order and nothing left out
\* scores higher than anything taken.
IsStableTop(output, merged, n) ==
    /\ Len(output) = Min(n, Len(merged))
    /\ \A i \in DOMAIN output :
          \E k \in DOMAIN merged :
             /\ Ahead(merged, k) = i - 1
             /\ output[i].ticker = merged[k].ticker
             /\ output[i].score = merged[k].score
             /\ output[i].matched_themes = merged[k].matched_themes
    /\ \A i, j \in DOMAIN output : i < j => output[i].score >= output[j].score

\* C23: the matches list written by consolidate_batch_files has length
\* min(TOP_COMPANY_MATCHES, number of merged records), is sorted by score in
\* non-increasing order with equal scores in encounter order, holds the
\* highest-scoring records of the merged list and gives the record at
\* position i rank i; artifacts with scores 0.9, 0.5, 0.3 and 0.95, 0.4 and
\* top-N = 4 give scores 0.95, 0.9, 0.5, 0.4.
C23_StableTopN ==
    [][BatchConsolidatedStep =>
          \A output \in {matched_companies'.matches},
             merged \in {Encountered(tool_call'.listing)} :
              /\ IsStableTop(output, merged, TopCompanyMatches)
              /\ \A i \in DOMAIN output : output[i].rank = i
              /\ ( /\ TopCompanyMatches = 4
                   /\ {tool_call'.listing[k] : k \in DOMAIN tool_call'.listing}
                         = {ZeroPad4(0), ZeroPad4(BatchSize)} )
                    => [i \in DOMAIN output |-> output[i].score] = <<95, 90, 50, 40>>]_vars

\* C23 (witness): three batch artifacts were consolidated, more records
\* were merged than the cut keeps, and two records tie at score 0.4.
C23_Witness ==
    /\ tool_call.op = "consolidate_batch_files"
    /\ tool_call.status = "success"
    /\ tool_call.put
    /\ Len(tool_call.listing) = 3
    /\ matched_companies.kind = "matches"
    /\ Len(matched_companies.matches) = TopCompanyMatches
    /\ matched_companies.total_companies_analyzed > TopCompanyMatches

\* The ranks, the scores and the summary statistics of a matches aggregate.
RanksScoresStatistics(doc) ==
    [ranks |-> [i \in DOMAIN doc.matches |-> doc.matches[i].rank],
     scores |-> [i \in DOMAIN doc.matches |-> doc.matches[i].score],
     theme_distribution |-> doc.theme_distribution,
     score_ranges |-> doc.score_ranges,
     average_score |-> doc.average_score]

\* The same, without the per-theme counts.
RanksScoresHistogram(doc) ==
    [ranks |-> [i \in DOMAIN doc.matches |-> doc.matches[i].rank],
     scores |-> [i \in DOMAIN doc.matches |-> doc.matches[i].score],
     score_ranges |-> doc.score_ranges,
     average_score |-> doc.average_score]

\* The successful results of consolidating the same artifacts listed in
\* any other order.
OtherOrders(listing) ==
    {r \in {ConsolidateBatch(order, TRUE) :
               order \in ListingOrders({listing[k] : k \in DOMAIN listing})} :
        r.status = "success"}

\* No two different entries of the merged list carry the same score.
NoTiedScores(merged) ==
    \A i, j \in DOMAIN merged :
        merged[i].score = merged[j].score => merged[i] = merged[j]

\* C24 (as stated): for the same set of batch artifacts listed in any two
\* orders, consolidate_batch_files produces the same ranks, the same scores
\* and the same per-theme counts, score histogram and average score.
C24_AsStated ==
    [][BatchConsolidatedStep =>
          \A r \in OtherOrders(tool_call'.listing) :
              RanksScoresStatistics(r.doc) = RanksScoresStatistics(matched_companies')]_vars

\* C24 (what does hold): for the same set of batch artifacts listed in any
\* two orders in which the consolidation succeeds, the ranks, the scores, the
\* score histogram and the average score are the same; when no two different
\* merged records have equal scores the whole output, per-theme counts and
\* the record at each rank included, is the same.
C24_OrderIndependentScores ==
    [][BatchConsolidatedStep =>
          \A r \in OtherOrders(tool_call'.listing) :
              /\ RanksScoresHistogram(r.doc) = RanksScoresHistogram(matched_companies')
              /\ NoTiedScores(Encountered(tool_call'.listing)) => r.doc = matched_companies']_vars

\* C25: after consolidate_batch_files no two records of the matches list
\* have the same ticker, whatever the batch artifacts contain.
C25_NoDuplicateTicker ==
    [][BatchConsolidatedStep =>
          \A i, j \in DOMAIN matched_companies'.matches :
              matched_companies'.matches[i].ticker = matched_companies'.matches[j].ticker
                  => i = j]_vars

\* merge_and_rank_companies returned success and its document was stored.
MergedStep ==
    /\ tool_call'.op = "merge_and_rank_companies"
    /\ tool_call'.status = "success"
    /\ tool_call'.put

\* The validations merge_and_rank_companies could read in this step.
ReadableValidations ==
    IF tool_call'.validations_ok /\ validated_results.kind = "validations"
    THEN {validated_results.validations[i] : i \in DOMAIN validated_results.validations}
    ELSE {}

\* The original scores the matches aggregate gives a ticker.
OriginalScores(ticker) ==
    {matched_companies.matches[i].score :
        i \in {i \in DOMAIN matched_companies.matches :
                  matched_companies.matches[i].ticker = ticker}}

\* C26: for every match record the final score equals the adjusted score of
\* the validation with the same ticker whenever that validation exists and
\* its adjusted score is present and non-null, for every such value
\* including 0, and equals the match's original score otherwise.
C26_AdjustedScoreWins ==
    [][MergedStep =>
          \A i \in DOMAIN final_rankings'.companies :
              LET company == final_rankings'.companies[i]
                  adjusted == {v \in ReadableValidations :
                                  v.ticker = company.ticker /\ ~v.adjusted_score.null}
              IN  IF adjusted # {}
                  THEN company.final_score \in {v.adjusted_score.value : v \in adjusted}
                  ELSE company.final_score \in OriginalScores(company.ticker)]_vars

MergeStep == tool_call'.op = "merge_and_rank_companies"

\* merge_and_rank_companies could read and parse matched_companies.json.
MatchesReadable == tool_call'.reads_ok /\ matched_companies.kind = "matches"

\* validated_results.json is absent, or its read failed.
ValidationsUnavailable == ~tool_call'.validations_ok \/ validated_results = NoDoc

\* C27: when the validations aggregate is absent or unreadable the merge
\* still succeeds, and the final_rankings.json it writes gives every company
\* its match's original score, null validation fields and
\* total_companies_validated 0; when the matches aggregate is absent the
\* merge returns an error result and writes nothing.
C27_ValidationsOptionalMatchesRequired ==
    [][MergeStep =>
          /\ (MatchesReadable /\ ValidationsUnavailable) =>
                /\ tool_call'.status = "success"
                /\ tool_call'.put =>
                      /\ final_rankings'.kind = "final"
                      /\ final_rankings'.total_companies_validated = 0
                      /\ Len(final_rankings'.companies)
                            = Min(TopCompanyMatches, Len(matched_companies.matches))
                      /\ \A i \in DOMAIN final_rankings'.companies :
                            /\ final_rankings'.companies[i].final_score
                                  \in OriginalScores(final_rankings'.companies[i].ticker)
                            /\ final_rankings'.companies[i].validation_status = "null"
          /\ ~MatchesReadable =>
                /\ tool_call'.status = "error"
                /\ ~tool_call'.put
                /\ ~tool_call'.raised
                /\ UNCHANGED <<matched_companies, validated_results, final_rankings>>]_vars

\* C27 (witness): a merge ran on a matches aggregate while
\* validated_results.json, already consolidated with adjusted scores, could
\* not be read, and final_rankings.json was written with no validation.
C27_Witness ==
    /\ tool_call.op = "merge_and_rank_companies"
    /\ tool_call.status = "success"
    /\ tool_call.put
    /\ ~tool_call.validations_ok
    /\ matched_companies.kind = "matches"
    /\ validated_results.kind = "validations"
    /\ final_rankings.kind = "final"
    /\ final_rankings.total_companies_validated = 0

\* C28: the companies list written by merge_and_rank_companies is sorted by
\* final score in non-increasing order with equal final scores in the order
\* of the matches aggregate, has length min(TOP_COMPANY_MATCHES, number of
\* match records) and gives the record at position i rank i.
C28_MergeSortedRanked ==
    [][MergedStep =>
          LET output == final_rankings'.companies
              matches == matched_companies.matches
          IN  /\ Len(output) = Min(TopCompanyMatches, Len(matches))
              /\ \A i \in DOMAIN output : output[i].rank = i
              /\ \E pos \in [DOMAIN output -> DOMAIN matches] :
                    /\ \A i \in DOMAIN output : output[i].ticker = matches[pos[i]].ticker
                    /\ \A i, j \in DOMAIN output :
                          i < j => \/ output[i].final_score > output[j].final_score
                                   \/ /\ output[i].final_score = output[j].final_score
                                      /\ pos[i] < pos[j]]_vars

\* C28 (witness): a matches aggregate longer than the cut was merged with a
\* validation that lifts B to 0.95, the score of D; D, ahead of B in the
\* aggregate, keeps rank 1, B takes rank 2 and the list is cut.
C28_Witness ==
    /\ tool_call.op = "merge_and_rank_companies"
    /\ tool_call.status = "success"
    /\ tool_call.put
    /\ matched_companies = LongerMatches
    /\ final_rankings.kind = "final"
    /\ Len(final_rankings.companies) = TopCompanyMatches
    /\ final_rankings.companies[1].ticker = <<"D">>
    /\ final_rankings.companies[2].ticker = <<"B">>
    /\ final_rankings.companies[2].final_score = 95

\* C29: every outcome of the gated operations reaches the caller as a
\* returned result string and never as a raised error, also when the
\* database call made after the gate's acceptance fails; here for
\* get_press_releases_from_mongodb.
C29_NeverRaises == [][QueryStep => ~gate_call'.raised]_vars

\* C29 (what does hold): a sequencing rejection of
\* get_press_releases_from_mongodb is returned, not raised, and no
\* consolidation or merge call raises.
C29_RejectionsReturned ==
    /\ (gate_call.op = "query" /\ ~gate_call.ok) => ~gate_call.raised
    /\ ~tool_call.raised

ConsolidationStep == tool_call'.op \in Consolidators /\ tool_call'.listing # <<>>

\* Some listed artifact could not be read or is not JSON.
SomeArtifactUnreadable ==
    \/ ~tool_call'.reads_ok
    \/ /\ tool_call'.op = "consolidate_batch_files"
       /\ \E k \in DOMAIN tool_call'.listing : ~BatchContent(tool_call'.listing[k]).parsed
    \/ /\ tool_call'.op = "consolidate_validation_files"
       /\ \E k \in DOMAIN tool_call'.listing :
             ~ValidationContent(TickerOfPath(tool_call'.listing[k])).parsed

\* The positions of the merged list whose entry cannot be converted to the
\* output record.
Unconvertible(merged) == {k \in DOMAIN merged : ~merged[k].complete}

\* Some entry of a listed artifact cannot be converted.
SomeRecordUnconvertible ==
    \/ /\ tool_call'.op = "consolidate_batch_files"
       /\ Unconvertible(Encountered(tool_call'.listing)) # {}
    \/ /\ tool_call'.op = "consolidate_validation_files"
       /\ \E k \in DOMAIN tool_call'.listing :
             ~ValidationContent(TickerOfPath(tool_call'.listing[k])).convertible

\* Some entry that has to be converted cannot be: for batch artifacts an
\* entry among the TOP_COMPANY_MATCHES the sort puts first, for validation
\* artifacts any entry.
SomeConvertedRecordUnconvertible ==
    \/ /\ tool_call'.op = "consolidate_batch_files"
       /\ \E merged \in {Encountered(tool_call'.listing)} :
             \E k \in Unconvertible(merged) : Ahead(merged, k) < TopCompanyMatches
    \/ /\ tool_call'.op = "consolidate_validation_files"
       /\ \E k \in DOMAIN tool_call'.listing :
             ~ValidationContent(TickerOfPath(tool_call'.listing[k])).convertible

NothingConsolidated ==
    /\ tool_call'.status = "error"
    /\ ~tool_call'.put
    /\ UNCHANGED <<matched_companies, validated_results, final_rankings>>

\* C30 (as stated): if any single batch or validation artifact cannot be
\* read, parsed or converted to the output record, the consolidation returns
\* an error result and writes no aggregate, leaving a previously written
\* aggregate unchanged.
C30_AsStated ==
    [][(ConsolidationStep /\ (SomeArtifactUnreadable \/ SomeRecordUnconvertible))
          => NothingConsolidated]_vars

\* C30 (amended): if any listed artifact cannot be read or parsed, or an
\* entry that is converted cannot be (for batch artifacts one of the
\* TOP_COMPANY_MATCHES highest-scoring merged entries, for validation
\* artifacts any entry), the consolidation returns an error result and writes
\* no aggregate, leaving a previously written aggregate unchanged.
C30_AllOrNothingForWhatIsConverted ==
    [][(ConsolidationStep /\ (SomeArtifactUnreadable \/ SomeConvertedRecordUnconvertible))
          => NothingConsolidated]_vars

\* C30 (witness): after matched_companies.json had been written, a second
\* consolidate_batch_files could not read an artifact, returned the error
\* and left the aggregate as it was.
C30_Witness ==
    /\ tool_call.op = "consolidate_batch_files"
    /\ tool_call.listing # <<>>
    /\ ~tool_call.reads_ok
    /\ tool_call.status = "error"
    /\ matched_companies.kind = "matches"
    /\ matched_companies # LongerMatches

\* C34: within one process no position of the worklist is accepted twice:
\* after validate_and_update accepted worklist[i], every later accepted call
\* is for a later position, whether the storage check for the pending
\* artifact reports present, reports absent or fails with an error.
C34_NoDuplicateAcceptance ==
    [][(AcceptStep /\ last_accept_index # NoIndex)
          => last_accept_index' > last_accept_index]_vars

\* C34 (what does hold): the same, for calls whose storage check runs (the
\* S3Backend is constructed).
C34_NoDuplicateWhenChecked ==
    [][(AcceptStep /\ last_accept_index # NoIndex /\ gate_call'.listing # "raised")
          => last_accept_index' > last_accept_index]_vars

\* C37: in every reachable state of the record gate, after any sequence of
\* initializations, queries, mark_file_written signals and reconciliations,
\* 0 <= current_index <= len(companies_to_validate).
C37_IndexWithinWorklist ==
    0 <= current_index /\ current_index <= Len(companies_to_validate)

\* C38: whenever a pending identifier is set, current_index is inside the
\* worklist and the pending identifier is companies_to_validate[current_index].
C38_PendingIsCurrent ==
    last_queried_company # NoCompany =>
        /\ current_index < Len(companies_to_validate)
        /\ last_queried_company = companies_to_validate[current_index + 1]

\* C35: batch stage liveness.  For every finite source, a driver that always
\* requests the cursor's next sequential offset with limit = batch_size and
\* writes the batch artifact after each accepted query brings the cursor to
\* completed = true, and once the (finitely many) restarts are over the
\* cursor stays completed.
C35_DrivenRunCompletes == <>[]completed

\* C35, witness: a process that started after a restart, was given batches
\* of a source with rows, and has completed.
C35_Witness ==
    /\ completed
    /\ restarts_left < MaxRestarts
    /\ total_count > 0
    /\ Len(accepted) >= 2
    /\ ~WritePending

\* Every entry of the worklist has its validation artifact in storage.
AllValidationsWritten ==
    \A i \in 1..Len(companies_to_validate) :
        ValidationPath(companies_to_validate[i]) \in validation_files

\* The agent's last write_file went unseen by after_tool.
LastWriteUnseen == gate_call.op = "write_file" /\ gate_call.listing = "none"

\* C36 (as stated): record gate liveness.  Under the driver, current_index
\* eventually reaches len(companies_to_validate) and stays there with an
\* artifact for every entry, with or without the mark_file_written signal.
C36_AsStated ==
    <>[](/\ initialized
         /\ current_index = Len(companies_to_validate)
         /\ AllValidationsWritten)

\* C36 (amended): under the driver every entry of the worklist eventually
\* has its artifact; current_index then is len(companies_to_validate) when
\* the last write was signalled (or the worklist is empty), and one less,
\* with the last entry pending, when it was not.
C36_DrivenGateFinishes ==
    <>[](/\ initialized
         /\ AllValidationsWritten
         /\ IF LastWriteUnseen
            THEN /\ current_index = Len(companies_to_validate) - 1
                 /\ last_queried_company = companies_to_validate[current_index + 1]
            ELSE /\ current_index = Len(companies_to_validate)
                 /\ last_queried_company = NoCompany)

\* C36, witness: a worklist of two finished with the first write unseen
\* (the lazy check moved the gate on) and the last one signalled.
C36_Witness ==
    /\ Len(companies_to_validate) = 2
    /\ current_index = 2
    /\ last_accept_index = 1
    /\ gate_call.op = "write_file"
    /\ gate_call.listing = "signal"
    /\ AllValidationsWritten
    /\ validation_files # {ValidationPath(t) : t \in Tickers}

\* C36: the driver is done (every entry queried and written), the last
\* write went unseen, and current_index is still short of the worklist.
C36_LastEntryLeftPending ==
    /\ initialized
    /\ AllValidationsWritten
    /\ LastWriteUnseen
    /\ ~ENABLED GateDriverQuery
    /\ ~ENABLED GateDriverWrite
    /\ current_index = Len(companies_to_validate) - 1

====
